---------------------------- MODULE Spec2Model ----------------------------
(***************************************************************************)
(* State-machine model of the rate-limited harvesting pipeline of the      *)
(* Spotify-network repository:                                             *)
(*   - rate_limit_check / get_rate_limit_status and api_call_with_backoff  *)
(*     of Code/Analysis/collaborationDataGathering/                        *)
(*     build_collaboration_matrix.py (restricted mode),                    *)
(*   - spotify_get, the CSV checkpoint helpers and main of                 *)
(*     artist_collab.py (ego mode).                                        *)
(* All durations and clock readings are in milliseconds, so that the       *)
(* 0.1 s buffer of the limiter and the 0.05 s pause of spotify_get are     *)
(* whole numbers.                                                          *)
(***************************************************************************)
EXTENDS Integers, Sequences, FiniteSets, TLC

(***************************************************************************)
(* Program constants.                                                      *)
(***************************************************************************)
RATE_LIMIT_WINDOW == 5000
MAX_REQUESTS_PER_WINDOW == 20
BUFFER == 100
DEFAULT_MAX_RETRIES == 5
DEFAULT_INITIAL_WAIT == 2
SG_MAX_RETRIES == 5
REQUEST_SLEEP_SECONDS == 50
SG_DEFAULT_RETRY_AFTER == 1
MAX_ALBUMS_PER_ARTIST == 300
ALBUMS_LIMIT == 50
BATCH_SIZE == 20
TRACKS_LIMIT == 50

(***************************************************************************)
(* Bounds of the model.                                                    *)
(***************************************************************************)
\* SpecLimiter: the clock is advanced between calls only up to MaxClock.
MaxClock == 8000
\* SpecBackoff: a new api_call_with_backoff starts only up to clock MaxStart.
MaxStart == 0
\* SpecMain: the roster holds up to MaxRoster artists, and the script is
\* started up to MaxRuns times on it.
MaxRoster == 3
MaxRuns == 2
\* SpecReleases: get_artist_albums_albums_and_singles is followed for up to
\* MaxPages requests, get_all_album_ids over up to MaxArtists artists.
MaxPages == 4
MaxArtists == 2
\* SpecTracks: get_albums_with_tracks_batched is given up to MaxAlbums
\* releases.
MaxAlbums == 41
\* SpecExtract: find_collaborations is given up to MaxTracks tracks.
MaxTracks == 2

\* Clock advances between two rate_limit_check calls (ms): half a window,
\* and one step more, so that ages of exactly 5000 and of 5100 both occur.
TickSteps == {2500, 2600}
\* By how much time.sleep may overshoot the requested duration (ms).
Oversleep == {0, 100}

VARIABLES
    program,             \* which of the two scripts this process runs
    \* ---- build_collaboration_matrix.py: the limiter
    now,                 \* what time.time() returns
    request_timestamps,  \* the module-level deque
    admission_log,       \* ghost: every recorded admission not older than the
                         \*        window at the latest admission
    rl_wait,             \* ghost: time_to_wait slept by the last check, 0 if none
    clock_set_back,      \* ghost: the system clock has been set back
    \* ---- build_collaboration_matrix.py: api_call_with_backoff
    bo_pc, max_retries, initial_wait, attempt, bo_exc, wait_time,
    bo_result, bo_raised,
    bo_admissions, bo_invocations, bo_admitted_attempt, bo_retryable,
    bo_only429, bo_sleeps,
    \* ---- artist_collab.py: spotify_get
    sg_pc, sg_attempt, sg_status, sg_header, sg_sleep, sg_requests,
    sg_raised, sg_retry_sleeps, sg_elapsed,
    \* ---- artist_collab.py: main and the CSV checkpoint
    roster,              \* artists: the ids read from INPUT_CSV, in input order
    run,                 \* ghost: how many times the script was started
    main_pc,             \* where main is (see below)
    idx,                 \* the loop index of main's for loop (from 1)
    processed_ids,       \* main's in-memory set
    collabs,             \* what get_collaborators_for_artist_id returned
    written,             \* rows of collabs that writer.writerows has written
    file_exists,         \* os.path.exists(OUTPUT_CSV)
    csv_headers,         \* how many header lines OUTPUT_CSV holds
    csv_rows,            \* the data rows of OUTPUT_CSV, in file order
    phase,               \* ghost: per roster position, how far this run got
    rows_at_start,       \* ghost: csv_rows when this run started
    step_rows,           \* ghost: csv_rows when the current artist was begun
    completed_before,    \* ghost: ids whose step ran to its end in earlier runs
    prev_end,            \* ghost: main_pc when the previous run ended
    \* ---- artist_collab.py: get_artist_albums_albums_and_singles
    ap_pc,               \* where the function is (see below)
    per_page, max_albums,\* its arguments
    ap_offset,           \* params["offset"]
    all_items,           \* the list it builds (release ids)
    seen_album_ids,      \* its dedup set
    ap_requests,         \* ghost: the offsets of the requests issued
    ap_pages,            \* ghost: the pages the server answered with
    ap_left,             \* ghost: items of the last page left unread
    \* ---- build_collaboration_matrix.py: get_all_album_ids
    ga_pc,               \* where the function is (see below)
    ga_artists,          \* len(artists)
    ga_idx,              \* the loop index of the for loop (from 1)
    ga_offset,           \* offset
    album_ids,           \* the set it builds
    ga_api_calls,        \* api_calls
    ga_catalogue,        \* ghost: how many releases the current artist has
    ga_collected,        \* ghost: items taken from the current artist's pages
    ga_raised,           \* ghost: the current artist's harvest ended in except
    \* ---- build_collaboration_matrix.py: get_albums_with_tracks_batched
    tb_pc,               \* where the function is (see below)
    tb_album_ids,        \* its argument album_ids
    tb_i,                \* i of the for loop over range(0, total, batch_size)
    tb_batch,            \* batch
    tb_k,                \* position in results['albums'] (from 1)
    tb_offset,           \* offset of the secondary fetch
    all_tracks,          \* the list it builds
    tb_api_calls,        \* api_calls
    tb_batches,          \* ghost: the batches sp.albums was called with
    tb_outcomes,         \* ghost: per such call, "ok" or "failed"
    tb_tracks_before,    \* ghost: all_tracks when the current batch was begun
    tb_more_failed,      \* ghost: a secondary fetch has failed
    \* ---- artist_collab.py: get_all_album_tracks
    at_pc,               \* where the function is (see below)
    at_total,            \* ghost: how many tracks the album has
    at_per_page,         \* its argument per_page
    at_offset,           \* params["offset"]
    tracks,              \* the list it builds
    at_requests,         \* ghost: the offsets of the requests issued
    \* ---- build_collaboration_matrix.py: find_collaborations
    ft_pc,               \* where the function is (see below)
    artist_ids,          \* its argument artist_ids, the universe
    ft_idx,              \* how many tracks of all_tracks the loop has taken
    processed_tracks,    \* its set of track ids
    collaborations,      \* its dict: pair -> list of track names
    ft_track,            \* ghost: the track taken last
    ft_before,           \* ghost: collaborations before that track
    ft_seen_before,      \* ghost: processed_tracks before that track
    ft_set_credits,      \* ghost: no track taken so far names an artist of
                         \*        the universe twice
    details,             \* the rows of collaboration_details.csv
    \* ---- artist_collab.py: extract_collaborators_from_tracks
    ex_pc,               \* where the function is (see below)
    primary_artist_id,   \* its argument primary_artist_id
    ex_idx,              \* how many tracks the loop has taken
    collaborators,       \* its set of (artist id, artist name)
    ex_track,            \* ghost: the credit list of the track taken last
    ex_before            \* ghost: collaborators before that track

limiterVars == <<now, request_timestamps, admission_log, rl_wait>>
boVars == <<bo_pc, max_retries, initial_wait, attempt, bo_exc, wait_time,
            bo_result, bo_raised, bo_admissions, bo_invocations,
            bo_admitted_attempt, bo_retryable, bo_only429, bo_sleeps>>
sgVars == <<sg_pc, sg_attempt, sg_status, sg_header, sg_sleep, sg_requests,
            sg_raised, sg_retry_sleeps, sg_elapsed>>
mainVars == <<roster, run, main_pc, idx, processed_ids, collabs, written,
              file_exists, csv_headers, csv_rows, phase, rows_at_start, step_rows,
              completed_before, prev_end>>
apVars == <<ap_pc, per_page, max_albums, ap_offset, all_items, seen_album_ids,
            ap_requests, ap_pages, ap_left>>
gaVars == <<ga_pc, ga_artists, ga_idx, ga_offset, album_ids, ga_api_calls,
            ga_catalogue, ga_collected, ga_raised>>
tbVars == <<tb_pc, tb_album_ids, tb_i, tb_batch, tb_k, tb_offset, all_tracks,
            tb_api_calls, tb_batches, tb_outcomes, tb_tracks_before,
            tb_more_failed>>
atVars == <<at_pc, at_total, at_per_page, at_offset, tracks, at_requests>>
ftVars == <<ft_pc, artist_ids, ft_idx, processed_tracks, collaborations,
            ft_track, ft_before, ft_seen_before, ft_set_credits, details>>
exVars == <<ex_pc, primary_artist_id, ex_idx, collaborators, ex_track,
            ex_before>>
harvestVars == <<apVars, gaVars, tbVars, atVars, ftVars, exVars>>
vars == <<program, clock_set_back, limiterVars, boVars, sgVars, mainVars, harvestVars>>
\* What the actions of one component leave alone.
restOfLimiter == <<program, clock_set_back, boVars, sgVars, mainVars, harvestVars>>
restOfBo == <<program, clock_set_back, sgVars, mainVars, harvestVars>>
restOfSg == <<program, clock_set_back, limiterVars, boVars, mainVars, harvestVars>>
restOfMain == <<program, clock_set_back, limiterVars, boVars, sgVars, harvestVars>>
restOfAp == <<program, clock_set_back, limiterVars, boVars, sgVars, mainVars, gaVars, tbVars,
              atVars, ftVars, exVars>>
restOfGa == <<program, clock_set_back, limiterVars, boVars, sgVars, mainVars, apVars, tbVars,
              atVars, ftVars, exVars>>
restOfTb == <<program, clock_set_back, limiterVars, boVars, sgVars, mainVars, apVars, gaVars,
              atVars, ftVars, exVars>>
restOfAt == <<program, clock_set_back, limiterVars, boVars, sgVars, mainVars, apVars, gaVars,
              tbVars, ftVars, exVars>>
restOfFt == <<program, clock_set_back, limiterVars, boVars, sgVars, mainVars, apVars, gaVars,
              tbVars, atVars, exVars>>
restOfEx == <<program, clock_set_back, limiterVars, boVars, sgVars, mainVars, apVars, gaVars,
              tbVars, atVars, ftVars>>

-----------------------------------------------------------------------------
(***************************************************************************)
(* RateLimiter: rate_limit_check and get_rate_limit_status.                *)
(***************************************************************************)

\* Mutant of PopOld: an if instead of the while, one entry dropped at most.
PopOldOnce(q, current_time) ==
    IF q # <<>> /\ current_time - Head(q) > RATE_LIMIT_WINDOW
    THEN Tail(q)
    ELSE q

\* while request_timestamps and current_time - request_timestamps[0] > WINDOW:
\*     request_timestamps.popleft()
RECURSIVE PopOld(_, _)
PopOld(q, current_time) ==
    IF q # <<>> /\ current_time - Head(q) > RATE_LIMIT_WINDOW
    THEN PopOld(Tail(q), current_time)
    ELSE q

\* Mutant of TimeToWait: the 0.1 s buffer is left out.
TimeToWaitNoBuffer(q, current_time) ==
    RATE_LIMIT_WINDOW - (current_time - q[1])

\* time_to_wait = RATE_LIMIT_WINDOW - (current_time - oldest_timestamp) + 0.1
TimeToWait(q, current_time) ==
    RATE_LIMIT_WINDOW - (current_time - q[1]) + BUFFER

\* Ghost: the admissions that lie in the closed trailing window ending at t.
InWindow(log, t) == SelectSeq(log, LAMBDA x : t - x <= RATE_LIMIT_WINDOW)

\* Mutant of RateLimitCheck: the clock is not read again after the sleep.
RateLimitCheckStaleReading(over) ==
    LET current_time == now
        q1 == PopOld(request_timestamps, current_time)
    IN  IF Len(q1) >= MAX_REQUESTS_PER_WINDOW
           /\ TimeToWait(q1, current_time) > 0
        THEN LET time_to_wait == TimeToWait(q1, current_time)
                 after == current_time + time_to_wait + over
             IN  /\ now' = after
                 /\ request_timestamps' = Append(q1, current_time)
                 /\ admission_log' =
                        Append(InWindow(admission_log, current_time), current_time)
                 /\ rl_wait' = time_to_wait
        ELSE /\ now' = now
             /\ request_timestamps' = Append(q1, current_time)
             /\ admission_log' =
                    Append(InWindow(admission_log, current_time), current_time)
             /\ rl_wait' = 0

\* One call of rate_limit_check(); over is by how much its sleep overshoots.
RateLimitCheck(over) ==
    LET current_time == now
        q1 == PopOld(request_timestamps, current_time)
    IN  IF Len(q1) >= MAX_REQUESTS_PER_WINDOW
           /\ TimeToWait(q1, current_time) > 0
        THEN LET time_to_wait == TimeToWait(q1, current_time)
                 after == current_time + time_to_wait + over
             IN  /\ now' = after
                 /\ request_timestamps' = Append(PopOld(q1, after), after)
                 /\ admission_log' = Append(InWindow(admission_log, after), after)
                 /\ rl_wait' = time_to_wait
        ELSE /\ now' = now
             /\ request_timestamps' = Append(q1, current_time)
             /\ admission_log' =
                    Append(InWindow(admission_log, current_time), current_time)
             /\ rl_wait' = 0

\* count, MAX_REQUESTS_PER_WINDOW = get_rate_limit_status()
RateLimitStatusCount ==
    Len(SelectSeq(request_timestamps, LAMBDA x : now - x <= RATE_LIMIT_WINDOW))

\* Time passes between two calls of the limiter.
Tick ==
    \E d \in TickSteps :
        /\ now + d <= MaxClock
        /\ now' = now + d
        /\ UNCHANGED <<request_timestamps, admission_log, rl_wait, restOfLimiter>>

\* The system clock is set back between two calls of the limiter (time.time()
\* is not monotonic): once per behaviour, when the deque is full or one
\* short of it, so that the next calls compute a wait from readings that lie
\* ahead of the clock.
ClockBack ==
    /\ ~clock_set_back
    /\ Len(request_timestamps) >= MAX_REQUESTS_PER_WINDOW - 1
    /\ \E d \in TickSteps :
          /\ now >= d
          /\ now' = now - d
    /\ clock_set_back' = TRUE
    /\ UNCHANGED <<program, request_timestamps, admission_log, rl_wait, boVars,
                   sgVars, mainVars, harvestVars>>

\* A caller invokes rate_limit_check() directly.
LimiterCheck ==
    /\ now <= MaxClock
    /\ \E over \in Oversleep : RateLimitCheck(over)
    /\ UNCHANGED restOfLimiter

\* A caller invokes get_rate_limit_status(); it reads and changes nothing.
LimiterStatus ==
    /\ RateLimitStatusCount >= 0
    /\ UNCHANGED <<limiterVars, restOfLimiter>>

-----------------------------------------------------------------------------
(***************************************************************************)
(* Values exchanged with the API.                                          *)
(***************************************************************************)
NONE == "None"
\* Retry-After header values a 429 response can carry (strings, as spotipy
\* and requests deliver them); NONE when the header is absent.
RetryAfterValues == {"0", "1", "3"}
\* int(retry_after)
IntOf(s) == CASE s = "0" -> 0 [] s = "1" -> 1 [] s = "3" -> 3
\* Python truthiness of the header value: `if retry_after:`
Truthy(s) == s # NONE /\ s # ""

HttpStatuses == {400, 404, 429, 500, 503}
\* An exception object: its class, e.http_status and e.headers['Retry-After'],
\* and the number its message is formatted with (0 when there is none).
Exc(type, status, retry_after, arg) ==
    [type |-> type, http_status |-> status, retry_after |-> retry_after,
     arg |-> arg]
NoException == Exc("None", 0, NONE, 0)
\* What the wrapped spotipy call can raise.
SpotifyExceptions ==
    {Exc("SpotifyException", st, NONE, 0) : st \in HttpStatuses}
    \cup {Exc("SpotifyException", 429, h, 0) : h \in RetryAfterValues}
\* Any other exception (timeout, connection error, ...).
OtherException == Exc("ConnectionError", 0, NONE, 0)
FuncExceptions == SpotifyExceptions \cup {OtherException}
\* Exception(f"Max retries ({max_retries}) exceeded for API call")
MaxRetriesExceeded(mr) == Exc("Exception", 0, NONE, mr)

\* 2 ** n
RECURSIVE Pow2(_)
Pow2(n) == IF n = 0 THEN 1 ELSE 2 * Pow2(n - 1)

-----------------------------------------------------------------------------
(***************************************************************************)
(* BackoffExecutor, restricted mode: api_call_with_backoff.                *)
(*   bo_pc: "idle"     not inside the function                             *)
(*          "admit"    top of the loop body, before rate_limit_check()     *)
(*          "call"     admitted, before func(...)              *)
(*          "except"   func raised bo_exc, before the handler's branch     *)
(*          "sleep"    handler computed wait_time, before time.sleep       *)
(*          "returned" the function returned bo_result                     *)
(*          "raised"   the function raised bo_raised.exc                   *)
(* Ghosts: bo_admissions, bo_invocations, bo_sleeps count the calls of     *)
(* rate_limit_check, func and time.sleep made by this invocation;          *)
(* bo_admitted_attempt is the loop index the last admission was made in;   *)
(* bo_retryable counts the attempts that failed with a retried failure;    *)
(* bo_only429 says that every failure so far was a 429 without Retry-After.*)
(***************************************************************************)
MaxRetriesArgs == {1, 2, DEFAULT_MAX_RETRIES}
InitialWaitArgs == {1, DEFAULT_INITIAL_WAIT}

BoIdle ==
    /\ bo_pc = "idle" /\ max_retries = DEFAULT_MAX_RETRIES
    /\ initial_wait = DEFAULT_INITIAL_WAIT /\ attempt = 0
    /\ bo_exc = NoException /\ wait_time = 0 /\ bo_result = NONE
    /\ bo_raised = [exc |-> NoException, context |-> NoException]
    /\ bo_admissions = 0 /\ bo_invocations = 0 /\ bo_admitted_attempt = -1
    /\ bo_retryable = 0 /\ bo_only429 = TRUE /\ bo_sleeps = 0

\* Mutant of LoopOrExhausted: only the first attempt passes the limiter,
\* a retry goes straight to the call.
LoopSkippingAdmission(next_attempt) ==
    IF next_attempt < max_retries
    THEN /\ bo_pc' = "call"
         /\ attempt' = next_attempt
         /\ bo_raised' = bo_raised
    ELSE /\ bo_pc' = "raised"
         /\ attempt' = attempt
         /\ bo_raised' = [exc |-> MaxRetriesExceeded(max_retries),
                          context |-> NoException]

\* Mutant of LoopOrExhausted: the loop runs once more than max_retries.
LoopOneMore(next_attempt) ==
    IF next_attempt <= max_retries
    THEN /\ bo_pc' = "admit"
         /\ attempt' = next_attempt
         /\ bo_raised' = bo_raised
    ELSE /\ bo_pc' = "raised"
         /\ attempt' = attempt
         /\ bo_raised' = [exc |-> MaxRetriesExceeded(max_retries),
                          context |-> NoException]

\* for attempt in range(max_retries): ... else fall out of the loop to
\* raise Exception(f"Max retries ({max_retries}) exceeded for API call");
\* raised outside every except block, so its __context__ is None.
LoopOrExhausted(next_attempt) ==
    IF next_attempt < max_retries
    THEN /\ bo_pc' = "admit"
         /\ attempt' = next_attempt
         /\ bo_raised' = bo_raised
    ELSE /\ bo_pc' = "raised"
         /\ attempt' = attempt
         /\ bo_raised' = [exc |-> MaxRetriesExceeded(max_retries),
                          context |-> NoException]

\* api_call_with_backoff(func, max_retries=mr, initial_wait=iw) is entered.
BoStart ==
    /\ program = "build_collaboration_matrix"
    /\ bo_pc \in {"idle", "returned", "raised"}
    /\ now <= MaxStart
    /\ \E mr \in MaxRetriesArgs, iw \in InitialWaitArgs :
          /\ max_retries' = mr
          /\ initial_wait' = iw
    /\ bo_pc' = "admit"
    /\ attempt' = 0
    /\ bo_exc' = NoException /\ wait_time' = 0 /\ bo_result' = NONE
    /\ bo_raised' = [exc |-> NoException, context |-> NoException]
    /\ bo_admissions' = 0 /\ bo_invocations' = 0 /\ bo_admitted_attempt' = -1
    /\ bo_retryable' = 0 /\ bo_only429' = TRUE /\ bo_sleeps' = 0
    /\ UNCHANGED <<limiterVars, restOfBo>>

\* rate_limit_check()
BoAdmit ==
    /\ bo_pc = "admit"
    /\ \E over \in Oversleep : RateLimitCheck(over)
    /\ bo_pc' = "call"
    /\ bo_admissions' = bo_admissions + 1
    /\ bo_admitted_attempt' = attempt
    /\ UNCHANGED <<restOfBo, max_retries, initial_wait, attempt, bo_exc,
                   wait_time, bo_result, bo_raised, bo_invocations,
                   bo_retryable, bo_only429, bo_sleeps>>

\* return func(...), the call succeeding
BoCallReturns ==
    /\ bo_pc = "call"
    /\ bo_invocations' = bo_invocations + 1
    /\ bo_pc' = "returned"
    /\ bo_result' = "results"
    /\ bo_exc' = NoException
    /\ UNCHANGED <<restOfBo, limiterVars, max_retries, initial_wait, attempt,
                   wait_time, bo_raised, bo_admissions, bo_admitted_attempt,
                   bo_retryable, bo_only429, bo_sleeps>>

\* func(...) raising e
BoCallRaises ==
    /\ bo_pc = "call"
    /\ bo_invocations' = bo_invocations + 1
    /\ \E e \in FuncExceptions : bo_exc' = e
    /\ bo_pc' = "except"
    /\ UNCHANGED <<restOfBo, limiterVars, max_retries, initial_wait, attempt,
                   wait_time, bo_result, bo_raised, bo_admissions,
                   bo_admitted_attempt, bo_retryable, bo_only429, bo_sleeps>>

\* Mutant of Retryable: only a 429 is retried.
RetryableOnly429(e) ==
    e.type = "SpotifyException" /\ e.http_status = 429

\* Mutant of Retryable: every HTTP error status is retried.
RetryableAnyHttpError(e) ==
    \/ e.type # "SpotifyException"
    \/ e.http_status >= 400

\* Is e retried by the handlers (429, >= 500, or not a SpotifyException)?
Retryable(e) ==
    \/ e.type # "SpotifyException"
    \/ e.http_status = 429
    \/ e.http_status >= 500

\* Mutant of WaitTime: the delay grows linearly with the attempt.
WaitTimeLinear(e, a) ==
    IF e.type = "SpotifyException" /\ e.http_status = 429
       /\ Truthy(e.retry_after)
    THEN IntOf(e.retry_after)
    ELSE initial_wait * (a + 1)

\* Mutant of WaitTime: the Retry-After header is not consulted.
WaitTimeIgnoringHeader(e, a) == initial_wait * Pow2(a)

\* The wait_time the matching handler computes for e in loop index a.
WaitTime(e, a) ==
    IF e.type = "SpotifyException" /\ e.http_status = 429
       /\ Truthy(e.retry_after)
    THEN IntOf(e.retry_after)
    ELSE initial_wait * Pow2(a)

\* except SpotifyException / except Exception: choose the branch
BoExcept ==
    /\ bo_pc = "except"
    /\ IF Retryable(bo_exc)
       THEN /\ wait_time' = WaitTime(bo_exc, attempt)
            /\ bo_pc' = "sleep"
            /\ bo_retryable' = bo_retryable + 1
            /\ bo_only429' = (bo_only429 /\ bo_exc.http_status = 429
                                /\ bo_exc.retry_after = NONE)
            /\ bo_raised' = bo_raised
       ELSE \* raise
            /\ bo_pc' = "raised"
            /\ bo_raised' = [exc |-> bo_exc, context |-> NoException]
            /\ UNCHANGED <<wait_time, bo_retryable, bo_only429>>
    /\ UNCHANGED <<restOfBo, limiterVars, max_retries, initial_wait, attempt,
                   bo_exc, bo_result, bo_admissions, bo_invocations,
                   bo_admitted_attempt, bo_sleeps>>

\* time.sleep(wait_time), then the next iteration or the end of the loop
BoSleep ==
    /\ bo_pc = "sleep"
    /\ now' = now + wait_time * 1000
    /\ bo_sleeps' = bo_sleeps + 1
    /\ LoopOrExhausted(attempt + 1)
    /\ UNCHANGED <<restOfBo, request_timestamps, admission_log, rl_wait,
                   max_retries, initial_wait, bo_exc, wait_time, bo_result,
                   bo_admissions, bo_invocations, bo_admitted_attempt,
                   bo_retryable, bo_only429>>

-----------------------------------------------------------------------------
(***************************************************************************)
(* BackoffExecutor, ego mode: spotify_get.                                 *)
(*   sg_pc: "idle"     not inside the function                             *)
(*          "pause"    top of the loop body, before the 50 ms sleep        *)
(*          "request"  before requests.get                                 *)
(*          "backoff"  a 429 arrived, retry_after computed, before sleep   *)
(*          "returned" the function returned r.json()                      *)
(*          "raised"   the function raised sg_raised                       *)
(* Ghosts: sg_requests counts requests.get calls, sg_elapsed the time      *)
(* slept (ms), sg_retry_sleeps logs each 429's header and the sleep made   *)
(* for it (s).                                                             *)
(***************************************************************************)
SgIdle ==
    /\ sg_pc = "idle" /\ sg_attempt = 0 /\ sg_status = 0 /\ sg_header = NONE
    /\ sg_sleep = 0 /\ sg_requests = 0 /\ sg_raised = NoException
    /\ sg_retry_sleeps = <<>> /\ sg_elapsed = 0

\* Statuses a response can carry.
ResponseStatuses == {200} \cup HttpStatuses

\* r.headers.get("Retry-After", "1")
HeaderOrDefault(h) == IF h = NONE THEN "1" ELSE h

\* retry_after = int(r.headers.get("Retry-After", "1"))
SgRetryAfter(h) == IntOf(HeaderOrDefault(h))

\* r.raise_for_status() raises for 4xx and 5xx
RaisesForStatus(st) == st >= 400 /\ st < 600

\* spotify_get(url, params, token) is entered
SgStart ==
    /\ program = "artist_collab"
    /\ sg_pc \in {"idle", "returned", "raised"}
    /\ sg_pc' = "pause"
    /\ sg_attempt' = 0 /\ sg_status' = 0 /\ sg_header' = NONE
    /\ sg_sleep' = 0 /\ sg_requests' = 0 /\ sg_raised' = NoException
    /\ sg_retry_sleeps' = <<>> /\ sg_elapsed' = 0
    /\ UNCHANGED restOfSg

\* time.sleep(REQUEST_SLEEP_SECONDS)
SgPause ==
    /\ sg_pc = "pause"
    /\ sg_elapsed' = sg_elapsed + REQUEST_SLEEP_SECONDS
    /\ sg_pc' = "request"
    /\ UNCHANGED <<sg_attempt, sg_status, sg_header, sg_sleep, sg_requests,
                   sg_raised, sg_retry_sleeps, restOfSg>>

\* requests.get(...) raising (timeout, connection error): nothing catches it
SgTransportError ==
    /\ sg_pc = "request"
    /\ sg_requests' = sg_requests + 1
    /\ sg_raised' = OtherException
    /\ sg_pc' = "raised"
    /\ UNCHANGED <<sg_attempt, sg_status, sg_header, sg_sleep,
                   sg_retry_sleeps, sg_elapsed, restOfSg>>

\* r = requests.get(...) answering, and the branches on r.status_code
SgResponse ==
    /\ sg_pc = "request"
    /\ sg_requests' = sg_requests + 1
    /\ \E st \in ResponseStatuses, h \in {NONE} \cup RetryAfterValues :
          /\ (st # 429 => h = NONE)
          /\ sg_status' = st
          /\ sg_header' = h
          /\ IF st = 429
             THEN /\ sg_sleep' = SgRetryAfter(h)
                  /\ sg_pc' = "backoff"
                  /\ sg_raised' = sg_raised
             ELSE IF RaisesForStatus(st)
             THEN /\ sg_pc' = "raised"
                  /\ sg_raised' = Exc("HTTPError", st, NONE, 0)
                  /\ sg_sleep' = sg_sleep
             ELSE /\ sg_pc' = "returned"
                  /\ sg_raised' = sg_raised
                  /\ sg_sleep' = sg_sleep
    /\ UNCHANGED <<sg_attempt, sg_retry_sleeps, sg_elapsed, restOfSg>>

\* time.sleep(retry_after); continue -- and, after the last iteration,
\* the trailing r.raise_for_status() on the last (429) response
SgBackoff ==
    /\ sg_pc = "backoff"
    /\ sg_elapsed' = sg_elapsed + sg_sleep * 1000
    /\ sg_retry_sleeps' =
           Append(sg_retry_sleeps, [header |-> sg_header, delay |-> sg_sleep])
    /\ sg_attempt' = sg_attempt + 1
    /\ IF sg_attempt + 1 < SG_MAX_RETRIES
       THEN /\ sg_pc' = "pause"
            /\ sg_raised' = sg_raised
       ELSE /\ sg_pc' = "raised"
            /\ sg_raised' = Exc("HTTPError", sg_status, sg_header, 0)
    /\ UNCHANGED <<sg_status, sg_header, sg_sleep, sg_requests, restOfSg>>

-----------------------------------------------------------------------------
(***************************************************************************)
(* Pipeline driver and Checkpoint Store, ego mode: main,                   *)
(* load_already_processed_artists, append_collaborators_to_csv.            *)
(*   main_pc: "boot"        the script is not running yet                  *)
(*            "loop"        at the for statement, about to take artist idx *)
(*            "harvest"     inside get_collaborators_for_artist_id         *)
(*            "append"      it returned collabs; before the append call    *)
(*            "writing"     OUTPUT_CSV is open, writerows is writing       *)
(*            "add"         the append returned; before processed_ids.add  *)
(*            "done"        the for loop ran to its end                    *)
(*            "interrupted" KeyboardInterrupt caught by the handler: break *)
(*            "aborted"     KeyboardInterrupt outside the try: traceback   *)
(* A row is kept as its primary_artist_id and collaborator_id; the two     *)
(* name columns are functions of the ids.                                  *)
(*   phase[p]: "Pending", "Harvesting", "Extracted", "Persisted",          *)
(*             "Skipped", "Failed".                                        *)
(***************************************************************************)
ARTISTS == {"id1", "id2"}
COLLABORATORS == {"c1", "c2"}

\* The rosters load_artists_from_input can return.
Rosters == UNION {[1..n -> ARTISTS] : n \in 0..MaxRoster}

\* What get_collaborators_for_artist_id can return for an artist: one row
\* per unique collaborator, sorted by collaborator name.
Row(artist_id, cid) == [primary_artist_id |-> artist_id, collaborator_id |-> cid]
CollabLists(artist_id) ==
    {<<>>, <<Row(artist_id, "c1")>>,
     <<Row(artist_id, "c1"), Row(artist_id, "c2")>>}

IdsOf(rows) == {rows[k].primary_artist_id : k \in DOMAIN rows}

\* Mutant of LoadProcessed: the scan finds no id (wrong column name).
LoadProcessedNothing(exists, rows) == {}

\* Mutant of LoadProcessed: only the first row is read.
LoadProcessedFirstRow(exists, rows) ==
    IF ~exists \/ rows = <<>> THEN {} ELSE {rows[1].primary_artist_id}

\* load_already_processed_artists(output_csv)
LoadProcessed(exists, rows) ==
    IF ~exists THEN {} ELSE IdsOf(rows)

\* Mutant of AlreadyProcessed: the skip test never succeeds.
NeverProcessed(artist_id, ids) == FALSE

\* if artist_id in processed_ids: ... continue
AlreadyProcessed(artist_id, ids) == artist_id \in ids

\* Mutant of OpenMode: the file is always opened for writing.
OpenModeAlwaysWrite(exists) == "w"

\* open(output_csv, "a" if file_exists else "w")
OpenMode(exists) == IF exists THEN "a" ELSE "w"

MainIdle ==
    /\ roster = <<>> /\ run = 0 /\ main_pc = "boot" /\ idx = 0
    /\ processed_ids = {} /\ collabs = <<>> /\ written = 0
    /\ file_exists = FALSE /\ csv_headers = 0 /\ csv_rows = <<>>
    /\ phase = <<>>
    /\ rows_at_start = <<>> /\ step_rows = <<>> /\ completed_before = {}
    /\ prev_end = "boot"

\* python artist_collab.py: main up to the for loop
StartRun ==
    /\ main_pc \in {"boot", "done", "interrupted", "aborted"}
    /\ run < MaxRuns
    /\ run' = run + 1
    /\ processed_ids' = LoadProcessed(file_exists, csv_rows)
    /\ idx' = 1
    /\ main_pc' = "loop"
    /\ collabs' = <<>> /\ written' = 0
    /\ phase' = [p \in DOMAIN roster |-> "Pending"]
    /\ rows_at_start' = csv_rows
    /\ step_rows' = csv_rows
    /\ completed_before' =
           completed_before
           \cup {roster[p] : p \in {q \in DOMAIN phase : phase[q] = "Persisted"}}
    /\ prev_end' = main_pc
    /\ UNCHANGED <<roster, file_exists, csv_headers, csv_rows, restOfMain>>

\* the for loop is exhausted
LoopEnd ==
    /\ main_pc = "loop" /\ idx > Len(roster)
    /\ main_pc' = "done"
    /\ UNCHANGED <<roster, run, idx, processed_ids, collabs, written,
                   file_exists, csv_headers, csv_rows, phase, rows_at_start, step_rows,
                   completed_before, prev_end, restOfMain>>

\* if artist_id in processed_ids: print(...Skipping...); continue
Skip ==
    /\ main_pc = "loop" /\ idx <= Len(roster)
    /\ AlreadyProcessed(roster[idx], processed_ids)
    /\ phase' = [phase EXCEPT ![idx] = "Skipped"]
    /\ idx' = idx + 1
    /\ UNCHANGED <<roster, run, main_pc, processed_ids, collabs, written,
                   file_exists, csv_headers, csv_rows, rows_at_start, step_rows,
                   completed_before, prev_end, restOfMain>>

\* try: collabs = get_collaborators_for_artist_id(...) is entered
Begin ==
    /\ main_pc = "loop" /\ idx <= Len(roster)
    /\ ~AlreadyProcessed(roster[idx], processed_ids)
    /\ phase' = [phase EXCEPT ![idx] = "Harvesting"]
    /\ main_pc' = "harvest"
    /\ collabs' = <<>> /\ written' = 0
    /\ step_rows' = csv_rows
    /\ UNCHANGED <<roster, run, idx, processed_ids, file_exists, csv_headers, csv_rows,
                   rows_at_start, completed_before, prev_end, restOfMain>>

\* Mutant of HarvestReturns: the id is added to processed_ids before the
\* append.
HarvestReturnsAndAdds ==
    /\ main_pc = "harvest"
    /\ \E c \in CollabLists(roster[idx]) : collabs' = c
    /\ phase' = [phase EXCEPT ![idx] = "Extracted"]
    /\ processed_ids' = processed_ids \cup {roster[idx]}
    /\ main_pc' = "append"
    /\ UNCHANGED <<roster, run, idx, written, file_exists, csv_headers,
                   csv_rows, rows_at_start, step_rows, completed_before,
                   prev_end, restOfMain>>

\* get_collaborators_for_artist_id returns its list
HarvestReturns ==
    /\ main_pc = "harvest"
    /\ \E c \in CollabLists(roster[idx]) : collabs' = c
    /\ phase' = [phase EXCEPT ![idx] = "Extracted"]
    /\ main_pc' = "append"
    /\ UNCHANGED <<roster, run, idx, processed_ids, written, file_exists, csv_headers,
                   csv_rows, rows_at_start, step_rows, completed_before,
                   prev_end, restOfMain>>

\* Mutant of HarvestRaises: the handler leaves the loop.
HarvestRaisesBreaks ==
    /\ main_pc = "harvest"
    /\ phase' = [phase EXCEPT ![idx] = "Failed"]
    /\ main_pc' = "done"
    /\ UNCHANGED <<roster, run, idx, processed_ids, collabs, written,
                   file_exists, csv_headers, csv_rows, rows_at_start, step_rows,
                   completed_before, prev_end, restOfMain>>

\* get_collaborators_for_artist_id raises; except Exception as e: print(...)
HarvestRaises ==
    /\ main_pc = "harvest"
    /\ phase' = [phase EXCEPT ![idx] = "Failed"]
    /\ main_pc' = "loop"
    /\ idx' = idx + 1
    /\ UNCHANGED <<roster, run, processed_ids, collabs, written, file_exists, csv_headers,
                   csv_rows, rows_at_start, step_rows, completed_before,
                   prev_end, restOfMain>>

\* append_collaborators_to_csv: if not collaborators: print(...); return
AppendNothing ==
    /\ main_pc = "append" /\ collabs = <<>>
    /\ main_pc' = "add"
    /\ UNCHANGED <<roster, run, idx, processed_ids, collabs, written,
                   file_exists, csv_headers, csv_rows, phase, rows_at_start, step_rows,
                   completed_before, prev_end, restOfMain>>

\* Mutant of WritesHeader: a header goes before every batch of rows.
WritesHeaderAlways(exists) == TRUE

\* if not file_exists: writer.writeheader()
WritesHeader(exists) == ~exists

\* append_collaborators_to_csv: open the file; mode "w" creates it and is
\* followed by writer.writeheader(), mode "a" keeps what it holds
AppendOpen ==
    /\ main_pc = "append" /\ collabs # <<>>
    /\ csv_rows' = IF OpenMode(file_exists) = "w" THEN <<>> ELSE csv_rows
    /\ csv_headers' =
           (IF OpenMode(file_exists) = "w" THEN 0 ELSE csv_headers)
           + (IF WritesHeader(file_exists) THEN 1 ELSE 0)
    /\ file_exists' = TRUE
    /\ written' = 0
    /\ main_pc' = "writing"
    /\ UNCHANGED <<roster, run, idx, processed_ids, collabs, phase,
                   rows_at_start, step_rows, completed_before, prev_end,
                   restOfMain>>

\* writer.writerows(collaborators): one more row
WriteRow ==
    /\ main_pc = "writing" /\ written < Len(collabs)
    /\ csv_rows' = Append(csv_rows, collabs[written + 1])
    /\ written' = written + 1
    /\ UNCHANGED <<roster, run, main_pc, idx, processed_ids, collabs,
                   file_exists, csv_headers, phase, rows_at_start, step_rows,
                   completed_before, prev_end, restOfMain>>

\* writerows is through; the with block closes the file; the append returns
AppendReturns ==
    /\ main_pc = "writing" /\ written = Len(collabs)
    /\ main_pc' = "add"
    /\ UNCHANGED <<roster, run, idx, processed_ids, collabs, written,
                   file_exists, csv_headers, csv_rows, phase, rows_at_start, step_rows,
                   completed_before, prev_end, restOfMain>>

\* Mutant of AddProcessed: the id is not added to processed_ids.
AddProcessedForgets ==
    /\ main_pc = "add"
    /\ phase' = [phase EXCEPT ![idx] = "Persisted"]
    /\ idx' = idx + 1
    /\ main_pc' = "loop"
    /\ UNCHANGED <<roster, run, processed_ids, collabs, written, file_exists,
                   csv_headers, csv_rows, rows_at_start, step_rows,
                   completed_before, prev_end, restOfMain>>

\* processed_ids.add(artist_id), and on to the next artist
AddProcessed ==
    /\ main_pc = "add"
    /\ processed_ids' = processed_ids \cup {roster[idx]}
    /\ phase' = [phase EXCEPT ![idx] = "Persisted"]
    /\ idx' = idx + 1
    /\ main_pc' = "loop"
    /\ UNCHANGED <<roster, run, collabs, written, file_exists, csv_headers, csv_rows,
                   rows_at_start, step_rows, completed_before, prev_end,
                   restOfMain>>

\* Ctrl+C inside the try block: the with block (if open) closes the file
\* with the rows written so far; except KeyboardInterrupt: print(...); break
Interrupt ==
    /\ main_pc \in {"harvest", "append", "writing", "add"}
    /\ main_pc' = "interrupted"
    /\ UNCHANGED <<roster, run, idx, processed_ids, collabs, written,
                   file_exists, csv_headers, csv_rows, phase, rows_at_start, step_rows,
                   completed_before, prev_end, restOfMain>>

\* Ctrl+C at the for statement, outside the try block: nothing catches it
InterruptOutside ==
    /\ main_pc = "loop"
    /\ main_pc' = "aborted"
    /\ UNCHANGED <<roster, run, idx, processed_ids, collabs, written,
                   file_exists, csv_headers, csv_rows, phase, rows_at_start, step_rows,
                   completed_before, prev_end, restOfMain>>

-----------------------------------------------------------------------------
(***************************************************************************)
(* ReleaseHarvester, ego mode: get_artist_albums_albums_and_singles.       *)
(*   ap_pc: "idle"     not inside the function                             *)
(*          "fetch"    top of the while loop, before spotify_get           *)
(*          "returned" the function returned all_items                     *)
(*          "raised"   spotify_get raised and the exception propagated     *)
(* A release is kept as its id. A page is what data holds: its "items" and *)
(* whether "next" is set.                                                  *)
(***************************************************************************)
ALBUMS == {"a1", "a2", "a3"}
PerPageArgs == {2}
MaxAlbumsArgs == {2, 3, MAX_ALBUMS_PER_ARTIST}

\* The pages the server can answer a request of limit pp with: up to pp
\* releases, repeated or not, seen before or not.
PageItems(pp) == UNION {[1..n -> ALBUMS] : n \in 0..pp}
Page(items, next) == [items |-> items, next |-> next]

ApIdle ==
    /\ ap_pc = "idle" /\ per_page = 2 /\ max_albums = MAX_ALBUMS_PER_ARTIST
    /\ ap_offset = 0 /\ all_items = <<>> /\ seen_album_ids = {}
    /\ ap_requests = <<>> /\ ap_pages = <<>> /\ ap_left = 0

\* Mutant of ReachedMax: the cap test is off by one.
ReachedMaxLate(all, max) == Len(all) > max

\* if len(all_items) >= max_albums:
ReachedMax(all, max) == Len(all) >= max

\* Mutant of IsNew: the dedup test always succeeds.
IsNewAlways(alb_id, seen) == TRUE

\* if alb_id not in seen_album_ids:
IsNew(alb_id, seen) == alb_id \notin seen

\* for alb in items: ... -- the loop over one page, from the state
\* (all, seen); capped says that it ended in `return all_items`, left is
\* how many items of the page it had not read then.
RECURSIVE TakeItems(_, _, _, _)
TakeItems(items, all, seen, max) ==
    IF items = <<>>
    THEN [all_items |-> all, seen |-> seen, capped |-> FALSE, left |-> 0]
    ELSE LET alb_id == Head(items)
         IN  IF IsNew(alb_id, seen)
             THEN LET all2 == Append(all, alb_id)
                      seen2 == seen \cup {alb_id}
                  IN  IF ReachedMax(all2, max)
                      THEN [all_items |-> all2, seen |-> seen2,
                            capped |-> TRUE, left |-> Len(items) - 1]
                      ELSE TakeItems(Tail(items), all2, seen2, max)
             ELSE TakeItems(Tail(items), all, seen, max)

\* Mutant of NextOffset: the offset counts pages, not items.
NextOffsetByOne(offset, pp) == offset + 1

\* params["offset"] += per_page
NextOffset(offset, pp) == offset + pp

\* get_artist_albums_albums_and_singles(artist_id, token, per_page=pp,
\* max_albums=ma) is entered
ApStart ==
    /\ program = "artist_collab"
    /\ ap_pc \in {"idle", "returned", "raised"}
    /\ \E pp \in PerPageArgs, ma \in MaxAlbumsArgs :
          per_page' = pp /\ max_albums' = ma
    /\ ap_pc' = "fetch"
    /\ ap_offset' = 0 /\ all_items' = <<>> /\ seen_album_ids' = {}
    /\ ap_requests' = <<>> /\ ap_pages' = <<>> /\ ap_left' = 0
    /\ UNCHANGED restOfAp

\* One round of the while loop: data = spotify_get(...) returns a page
ApFetchReturns ==
    /\ ap_pc = "fetch" /\ Len(ap_requests) < MaxPages
    /\ ap_requests' = Append(ap_requests, ap_offset)
    /\ \E items \in PageItems(per_page), next \in BOOLEAN :
          /\ ap_pages' = Append(ap_pages, Page(items, next))
          /\ IF items = <<>>
             THEN \* if not items: break
                  /\ ap_pc' = "returned"
                  /\ UNCHANGED <<all_items, seen_album_ids, ap_offset, ap_left>>
             ELSE LET r == TakeItems(items, all_items, seen_album_ids,
                                     max_albums)
                  IN  /\ all_items' = r.all_items
                      /\ seen_album_ids' = r.seen
                      /\ ap_left' = r.left
                      /\ IF r.capped \/ ~next
                         THEN \* return all_items / if not data.get("next"): break
                              /\ ap_pc' = "returned"
                              /\ ap_offset' = ap_offset
                         ELSE \* params["offset"] += per_page
                              /\ ap_pc' = "fetch"
                              /\ ap_offset' = NextOffset(ap_offset, per_page)
    /\ UNCHANGED <<per_page, max_albums, restOfAp>>

\* spotify_get(...) raises: nothing in the function catches it
ApFetchRaises ==
    /\ ap_pc = "fetch" /\ Len(ap_requests) < MaxPages
    /\ ap_requests' = Append(ap_requests, ap_offset)
    /\ ap_pc' = "raised"
    /\ UNCHANGED <<per_page, max_albums, ap_offset, all_items, seen_album_ids,
                   ap_pages, ap_left, restOfAp>>

-----------------------------------------------------------------------------
(***************************************************************************)
(* ReleaseHarvester, restricted mode: get_all_album_ids.                   *)
(*   ga_pc: "idle"   not inside the function                               *)
(*          "artist" at the for statement, about to take artist ga_idx     *)
(*          "fetch"  top of the while loop, before api_call_with_backoff   *)
(*          "done"   the function returned list(album_ids)                 *)
(* The server holds ga_catalogue releases of the current artist and        *)
(* answers a request with the window of them at the offset asked for; a    *)
(* release id is kept as the artist's index and the release's position.    *)
(***************************************************************************)
CatalogueSizes == {0, 50, 120, 350}

GaIdle ==
    /\ ga_pc = "idle" /\ ga_artists = 0 /\ ga_idx = 0 /\ ga_offset = 0
    /\ album_ids = {} /\ ga_api_calls = 0 /\ ga_catalogue = 0
    /\ ga_collected = 0 /\ ga_raised = FALSE

\* results['items'] for the window (offset, limit) of a catalogue of n
ArtistAlbumsItems(artist, n, offset, limit) ==
    {<<artist, k>> : k \in {m \in (offset + 1)..(offset + limit) : m <= n}}

\* Mutant of LastPage: a full page ends the pagination too.
LastPageOrFull(count, limit) == count <= limit

\* if len(results['items']) < limit: break
LastPage(count, limit) == count < limit

\* get_all_album_ids(artists) is entered
GaStart ==
    /\ program = "build_collaboration_matrix"
    /\ ga_pc \in {"idle", "done"}
    /\ \E n \in 0..MaxArtists : ga_artists' = n
    /\ ga_pc' = "artist" /\ ga_idx' = 1 /\ ga_offset' = 0
    /\ album_ids' = {} /\ ga_api_calls' = 0 /\ ga_catalogue' = 0
    /\ ga_collected' = 0 /\ ga_raised' = FALSE
    /\ UNCHANGED restOfGa

\* for idx, artist in enumerate(artists): ... offset = 0; limit = 50
GaNextArtist ==
    /\ ga_pc = "artist" /\ ga_idx <= ga_artists
    /\ \E n \in CatalogueSizes : ga_catalogue' = n
    /\ ga_offset' = 0 /\ ga_collected' = 0 /\ ga_raised' = FALSE
    /\ ga_pc' = "fetch"
    /\ UNCHANGED <<ga_artists, ga_idx, album_ids, ga_api_calls, restOfGa>>

\* One round of the while loop: api_call_with_backoff(sp.artist_albums, ...)
\* returns results
GaFetchReturns ==
    /\ ga_pc = "fetch"
    /\ LET items == ArtistAlbumsItems(ga_idx, ga_catalogue, ga_offset,
                                      ALBUMS_LIMIT)
       IN  /\ ga_api_calls' = ga_api_calls + 1
           /\ album_ids' = album_ids \cup items
           /\ ga_collected' = ga_collected + Cardinality(items)
           /\ IF LastPage(Cardinality(items), ALBUMS_LIMIT)
              THEN /\ ga_pc' = "artist"
                   /\ ga_idx' = ga_idx + 1
                   /\ ga_offset' = ga_offset
              ELSE /\ ga_pc' = "fetch"
                   /\ ga_idx' = ga_idx
                   /\ ga_offset' = ga_offset + ALBUMS_LIMIT
    /\ UNCHANGED <<ga_artists, ga_catalogue, ga_raised, restOfGa>>

\* api_call_with_backoff raises; except Exception as e: print(...); continue
GaFetchRaises ==
    /\ ga_pc = "fetch"
    /\ ga_pc' = "artist"
    /\ ga_idx' = ga_idx + 1
    /\ ga_raised' = TRUE
    /\ UNCHANGED <<ga_artists, ga_offset, album_ids, ga_api_calls,
                   ga_catalogue, ga_collected, restOfGa>>

\* the for loop is exhausted: return list(album_ids)
GaDone ==
    /\ ga_pc = "artist" /\ ga_idx > ga_artists
    /\ ga_pc' = "done"
    /\ UNCHANGED <<ga_artists, ga_idx, ga_offset, album_ids, ga_api_calls,
                   ga_catalogue, ga_collected, ga_raised, restOfGa>>

-----------------------------------------------------------------------------
(***************************************************************************)
(* TrackHarvester, restricted mode: get_albums_with_tracks_batched.        *)
(*   tb_pc: "idle"   not inside the function                               *)
(*          "batch"  at the for statement, about to take the batch at tb_i *)
(*          "albums" sp.albums answered; about to take results['albums']   *)
(*                   at position tb_k                                      *)
(*          "more"   in the while loop of the secondary fetch, before      *)
(*                   api_call_with_backoff(sp.album_tracks, ...)           *)
(*          "done"   the function returned all_tracks                      *)
(* album_ids is the list 1..n. The server holds TrackCount(a) tracks of    *)
(* release a, knows nothing of the releases in MissingAlbums (it answers   *)
(* None for them), embeds the first TRACKS_LIMIT tracks of a release in    *)
(* the multi-get answer and sets 'next' when there are more. A track is    *)
(* kept as its release and its position in the release.                    *)
(***************************************************************************)
TrackCount(a) ==
    CASE a = 1 -> 120 [] a = 2 -> 100 [] a = 3 -> 51 [] a = 4 -> 50
      [] a = 5 -> 0 [] a = 21 -> 51 [] OTHER -> 1
MissingAlbums == {6}

Min(a, b) == IF a <= b THEN a ELSE b

\* sp.album_tracks(album_id, limit=limit, offset=offset)['items'], and the
\* items embedded in an album object (offset 0)
TrackWindow(a, offset, limit) ==
    [j \in 1..Min(limit, IF TrackCount(a) > offset
                         THEN TrackCount(a) - offset ELSE 0) |-> <<a, offset + j>>]
\* album['tracks'].get('next')
HasMore(a, offset, limit) == TrackCount(a) > offset + limit

TbIdle ==
    /\ tb_pc = "idle" /\ tb_album_ids = <<>> /\ tb_i = 0 /\ tb_batch = <<>>
    /\ tb_k = 0 /\ tb_offset = 0 /\ all_tracks = <<>> /\ tb_api_calls = 0
    /\ tb_batches = <<>> /\ tb_outcomes = <<>> /\ tb_tracks_before = <<>>
    /\ tb_more_failed = FALSE

\* Mutant of Batch: the slice takes one release too many.
BatchOneMore(ids, i, size) == SubSeq(ids, i + 1, Min(i + size + 1, Len(ids)))

\* batch = album_ids[i:i+batch_size]
Batch(ids, i, size) == SubSeq(ids, i + 1, Min(i + size, Len(ids)))

\* Mutant of TracksLastPage: a full page ends the secondary fetch too.
TracksLastPageOrFull(count) == count <= TRACKS_LIMIT

\* if len(more_results['items']) < 50: break
TracksLastPage(count) == count < TRACKS_LIMIT

\* get_albums_with_tracks_batched(album_ids) is entered
TbStart ==
    /\ program = "build_collaboration_matrix"
    /\ tb_pc \in {"idle", "done"}
    /\ \E n \in 0..MaxAlbums : tb_album_ids' = [k \in 1..n |-> k]
    /\ tb_pc' = "batch" /\ tb_i' = 0 /\ tb_batch' = <<>> /\ tb_k' = 0
    /\ tb_offset' = 0 /\ all_tracks' = <<>> /\ tb_api_calls' = 0
    /\ tb_batches' = <<>> /\ tb_outcomes' = <<>> /\ tb_tracks_before' = <<>>
    /\ tb_more_failed' = FALSE
    /\ UNCHANGED restOfTb

\* results = api_call_with_backoff(sp.albums, batch) returns
TbBatchReturns ==
    /\ tb_pc = "batch" /\ tb_i < Len(tb_album_ids)
    /\ tb_batch' = Batch(tb_album_ids, tb_i, BATCH_SIZE)
    /\ tb_batches' = Append(tb_batches, tb_batch')
    /\ tb_outcomes' = Append(tb_outcomes, "ok")
    /\ tb_tracks_before' = all_tracks
    /\ tb_api_calls' = tb_api_calls + 1
    /\ tb_k' = 1
    /\ tb_pc' = "albums"
    /\ UNCHANGED <<tb_album_ids, tb_i, tb_offset, all_tracks, tb_more_failed,
                   restOfTb>>

\* Mutant of TbBatchRaises: the exception ends the function.
TbBatchRaisesAborts ==
    /\ tb_pc = "batch" /\ tb_i < Len(tb_album_ids)
    /\ tb_batch' = Batch(tb_album_ids, tb_i, BATCH_SIZE)
    /\ tb_batches' = Append(tb_batches, tb_batch')
    /\ tb_outcomes' = Append(tb_outcomes, "failed")
    /\ tb_tracks_before' = all_tracks
    /\ tb_pc' = "done"
    /\ UNCHANGED <<tb_album_ids, tb_i, tb_k, tb_offset, all_tracks,
                   tb_api_calls, tb_more_failed, restOfTb>>

\* api_call_with_backoff(sp.albums, batch) raises;
\* except Exception as e: print(...); continue
TbBatchRaises ==
    /\ tb_pc = "batch" /\ tb_i < Len(tb_album_ids)
    /\ tb_batch' = Batch(tb_album_ids, tb_i, BATCH_SIZE)
    /\ tb_batches' = Append(tb_batches, tb_batch')
    /\ tb_outcomes' = Append(tb_outcomes, "failed")
    /\ tb_tracks_before' = all_tracks
    /\ tb_i' = tb_i + BATCH_SIZE
    /\ UNCHANGED <<tb_pc, tb_album_ids, tb_k, tb_offset, all_tracks,
                   tb_api_calls, tb_more_failed, restOfTb>>

\* The album at tb_k is through: on to the next album of the batch, or to
\* the next batch after the last.
NextAlbum ==
    IF tb_k < Len(tb_batch)
    THEN /\ tb_k' = tb_k + 1
         /\ tb_pc' = "albums"
         /\ tb_i' = tb_i
    ELSE /\ tb_k' = tb_k
         /\ tb_pc' = "batch"
         /\ tb_i' = tb_i + BATCH_SIZE

\* for album in results['albums']: one album
TbAlbum ==
    /\ tb_pc = "albums"
    /\ LET album_id == tb_batch[tb_k]
       IN  IF album_id \in MissingAlbums
           THEN \* if album and 'tracks' in album: fails
                /\ NextAlbum
                /\ UNCHANGED <<all_tracks, tb_offset>>
           ELSE /\ all_tracks' =
                       all_tracks \o TrackWindow(album_id, 0, TRACKS_LIMIT)
                /\ IF HasMore(album_id, 0, TRACKS_LIMIT)
                   THEN /\ tb_offset' = TRACKS_LIMIT
                        /\ tb_pc' = "more"
                        /\ UNCHANGED <<tb_k, tb_i>>
                   ELSE /\ NextAlbum
                        /\ tb_offset' = tb_offset
    /\ UNCHANGED <<tb_album_ids, tb_batch, tb_api_calls, tb_batches,
                   tb_outcomes, tb_tracks_before, tb_more_failed, restOfTb>>

\* more_results = api_call_with_backoff(sp.album_tracks, ...) returns
TbMoreReturns ==
    /\ tb_pc = "more"
    /\ tb_api_calls' = tb_api_calls + 1
    /\ LET items == TrackWindow(tb_batch[tb_k], tb_offset, TRACKS_LIMIT)
       IN  IF items = <<>>
           THEN \* if not more_results or not more_results.get('items'): break
                /\ NextAlbum
                /\ UNCHANGED <<all_tracks, tb_offset>>
           ELSE /\ all_tracks' = all_tracks \o items
                /\ IF TracksLastPage(Len(items))
                   THEN /\ NextAlbum
                        /\ tb_offset' = tb_offset
                   ELSE /\ tb_offset' = tb_offset + TRACKS_LIMIT
                        /\ UNCHANGED <<tb_pc, tb_k, tb_i>>
    /\ UNCHANGED <<tb_album_ids, tb_batch, tb_batches, tb_outcomes,
                   tb_tracks_before, tb_more_failed, restOfTb>>

\* api_call_with_backoff(sp.album_tracks, ...) raises;
\* except Exception as e: print(...); break
TbMoreRaises ==
    /\ tb_pc = "more"
    /\ NextAlbum
    /\ tb_more_failed' = TRUE
    /\ UNCHANGED <<tb_album_ids, tb_batch, tb_offset, all_tracks,
                   tb_api_calls, tb_batches, tb_outcomes, tb_tracks_before,
                   restOfTb>>

\* the for loop is exhausted: return all_tracks
TbDone ==
    /\ tb_pc = "batch" /\ tb_i >= Len(tb_album_ids)
    /\ tb_pc' = "done"
    /\ UNCHANGED <<tb_album_ids, tb_i, tb_batch, tb_k, tb_offset, all_tracks,
                   tb_api_calls, tb_batches, tb_outcomes, tb_tracks_before,
                   tb_more_failed, restOfTb>>

-----------------------------------------------------------------------------
(***************************************************************************)
(* TrackHarvester, ego mode: get_all_album_tracks.                         *)
(*   at_pc: "idle", "fetch" (before spotify_get), "returned", "raised".    *)
(* The server holds at_total tracks of the album and answers a request     *)
(* with the window of them at the offset asked for, 'next' set when more   *)
(* follow. A track is kept as its position in the album.                   *)
(***************************************************************************)
AlbumTrackCounts == {0, 1, 50, 51, 100, 120}
TrackPageArgs == {20, 50}

AtIdle ==
    /\ at_pc = "idle" /\ at_total = 0 /\ at_per_page = 50 /\ at_offset = 0
    /\ tracks = <<>> /\ at_requests = <<>>

\* data["items"] for the window (offset, limit) of an album of n tracks
AlbumTracksItems(n, offset, limit) ==
    [j \in 1..Min(limit, IF n > offset THEN n - offset ELSE 0) |-> offset + j]
\* data.get("next")
AlbumTracksNext(n, offset, limit) == n > offset + limit

\* get_all_album_tracks(album_id, token, per_page=pp) is entered
AtStart ==
    /\ program = "artist_collab"
    /\ at_pc \in {"idle", "returned", "raised"}
    /\ \E n \in AlbumTrackCounts, pp \in TrackPageArgs :
          at_total' = n /\ at_per_page' = pp
    /\ at_pc' = "fetch" /\ at_offset' = 0 /\ tracks' = <<>>
    /\ at_requests' = <<>>
    /\ UNCHANGED restOfAt

\* One round of the while loop: data = spotify_get(...) returns a page
AtFetchReturns ==
    /\ at_pc = "fetch"
    /\ at_requests' = Append(at_requests, at_offset)
    /\ LET items == AlbumTracksItems(at_total, at_offset, at_per_page)
       IN  IF items = <<>>
           THEN /\ at_pc' = "returned"
                /\ UNCHANGED <<tracks, at_offset>>
           ELSE /\ tracks' = tracks \o items
                /\ IF ~AlbumTracksNext(at_total, at_offset, at_per_page)
                   THEN /\ at_pc' = "returned"
                        /\ at_offset' = at_offset
                   ELSE /\ at_pc' = "fetch"
                        /\ at_offset' = NextOffset(at_offset, at_per_page)
    /\ UNCHANGED <<at_total, at_per_page, restOfAt>>

\* spotify_get(...) raises: nothing in the function catches it
AtFetchRaises ==
    /\ at_pc = "fetch"
    /\ at_requests' = Append(at_requests, at_offset)
    /\ at_pc' = "raised"
    /\ UNCHANGED <<at_total, at_per_page, at_offset, tracks, restOfAt>>

-----------------------------------------------------------------------------
(***************************************************************************)
(* CollaborationExtractor, restricted mode: find_collaborations.           *)
(*   ft_pc: "idle"  not inside the function                                *)
(*          "loop"  at the for statement over all_tracks                   *)
(*          "done"  the function returned collaborations                   *)
(*          "saved" save_collaboration_details wrote them to its file      *)
(* A track is its id (NONE when null or absent), its name and the list of  *)
(* the ids of the artists it credits. collaborations is a function from    *)
(* the pairs that are keys of the dict to their lists of track names.      *)
(***************************************************************************)
UNIVERSE == {"id1", "id2", "id3"}
\* The artist ids a track can credit, in the order of Python's string
\* comparison; "x9" is an artist outside the roster.
CreditedIds == <<"id1", "id2", "id3", "x9">>
CreditedIdSet == {CreditedIds[k] : k \in DOMAIN CreditedIds}
TrackIds == {"t1", "t2"}
TrackName(track_id) ==
    CASE track_id = "t1" -> "n1" [] track_id = "t2" -> "n2" [] OTHER -> "n0"
Track(track_id, artists) ==
    [id |-> track_id, name |-> TrackName(track_id), artists |-> artists]
NoTrack == Track(NONE, <<>>)
\* The credit lists of a track: up to three artists, in any order, an
\* artist possibly credited more than once.
CreditLists == UNION {[1..n -> CreditedIdSet] : n \in 0..3}
Tracks == {Track(t, c) : t \in TrackIds \cup {NONE}, c \in CreditLists}
NoCollaborations == [pair \in {} |-> <<>>]
\* no value occurs twice in the list
NoRepetition(st) == \A j, k \in DOMAIN st : st[j] = st[k] => j = k

FtIdle ==
    /\ ft_pc = "idle" /\ artist_ids = UNIVERSE /\ ft_idx = 0
    /\ processed_tracks = {} /\ collaborations = NoCollaborations
    /\ ft_track = NoTrack /\ ft_before = NoCollaborations
    /\ ft_seen_before = {} /\ ft_set_credits = TRUE /\ details = <<>>

\* a <= b for two id strings
StrLeq(a, b) ==
    \E m, n \in DOMAIN CreditedIds :
        CreditedIds[m] = a /\ CreditedIds[n] = b /\ m <= n

\* Mutant of SortedPair: the pair is stored in credit order.
UnsortedPair(artist1, artist2) == <<artist1, artist2>>

\* pair = tuple(sorted([artist1, artist2]))
SortedPair(artist1, artist2) ==
    IF StrLeq(artist1, artist2) THEN <<artist1, artist2>>
    ELSE <<artist2, artist1>>

\* collaborations[pair].append(track_name), on a defaultdict(list)
AppendEvidence(collab, pair, track_name) ==
    IF pair \in DOMAIN collab
    THEN [collab EXCEPT ![pair] = Append(@, track_name)]
    ELSE collab @@ (pair :> <<track_name>>)

\* Mutant of AddPairs: only the first artist is paired with the others.
RECURSIVE AddPairsOfFirst(_, _, _, _, _)
AddPairsOfFirst(collab, c, i, j, track_name) ==
    IF i > 1 \/ j > Len(c) THEN collab
    ELSE AddPairsOfFirst(AppendEvidence(collab, SortedPair(c[i], c[j]), track_name),
                         c, i, j + 1, track_name)

\* for i in range(len(c)): for j in range(i + 1, len(c)): ... from (i, j) on
RECURSIVE AddPairs(_, _, _, _, _)
AddPairs(collab, c, i, j, track_name) ==
    IF i > Len(c) THEN collab
    ELSE IF j > Len(c) THEN AddPairs(collab, c, i + 1, i + 2, track_name)
    ELSE AddPairs(AppendEvidence(collab, SortedPair(c[i], c[j]), track_name),
                  c, i, j + 1, track_name)

\* Mutant of CollaboratingArtists: every credited artist is kept.
CollaboratingArtistsUnfiltered(track, universe) == track.artists

\* collaborating_artists = [aid for aid in track_artist_ids if aid in artist_ids]
CollaboratingArtists(track, universe) ==
    SelectSeq(track.artists, LAMBDA aid : aid \in universe)

\* Mutant of Skipped: a track id seen before is taken again.
SkippedWhenNull(track, processed) == track.id = NONE

\* if not track or 'id' not in track or track['id'] is None: continue
\* if track_id in processed_tracks: continue
Skipped(track, processed) == track.id = NONE \/ track.id \in processed

\* find_collaborations(all_tracks, artist_ids) is entered
FtStart ==
    /\ program = "build_collaboration_matrix"
    /\ ft_pc \in {"idle", "done"}
    /\ ft_pc' = "loop" /\ artist_ids' = UNIVERSE /\ ft_idx' = 0
    /\ processed_tracks' = {} /\ collaborations' = NoCollaborations
    /\ ft_track' = NoTrack /\ ft_before' = NoCollaborations
    /\ ft_seen_before' = {} /\ ft_set_credits' = TRUE
    /\ UNCHANGED details
    /\ UNCHANGED restOfFt

\* for idx, track in enumerate(all_tracks): one track
FtTrack ==
    /\ ft_pc = "loop" /\ ft_idx < MaxTracks
    /\ \E track \in Tracks :
          /\ ft_track' = track
          /\ IF Skipped(track, processed_tracks)
             THEN UNCHANGED <<processed_tracks, collaborations>>
             ELSE /\ processed_tracks' = processed_tracks \cup {track.id}
                  /\ LET c == CollaboratingArtists(track, artist_ids)
                     IN  collaborations' =
                             IF Len(c) >= 2
                             THEN AddPairs(collaborations, c, 1, 2, track.name)
                             ELSE collaborations
          /\ ft_set_credits' =
                 (ft_set_credits /\
                     (Skipped(track, processed_tracks) \/
                      NoRepetition(CollaboratingArtists(track, artist_ids))))
    /\ ft_before' = collaborations
    /\ ft_seen_before' = processed_tracks
    /\ ft_idx' = ft_idx + 1
    /\ UNCHANGED <<ft_pc, artist_ids, details, restOfFt>>

\* all_tracks is exhausted: return collaborations
FtDone ==
    /\ ft_pc = "loop"
    /\ ft_pc' = "done"
    /\ UNCHANGED <<artist_ids, ft_idx, processed_tracks, collaborations,
                   ft_track, ft_before, ft_seen_before, ft_set_credits,
                   details, restOfFt>>

\* (a1, a2) <= (b1, b2) as Python compares two tuples of strings
PairLeq(p, q) ==
    IF p[1] = q[1] THEN StrLeq(p[2], q[2]) ELSE StrLeq(p[1], q[1])

\* the keys of sorted(collaborations.items()), in that order
RECURSIVE SortedKeys(_)
SortedKeys(keys) ==
    IF keys = {} THEN <<>>
    ELSE LET first == CHOOSE p \in keys : \A q \in keys : PairLeq(p, q)
         IN  <<first>> \o SortedKeys(keys \ {first})

\* writer.writerow([artist1_name, artist2_name, len(tracks), track_list]):
\* an artist's name is a function of its id and is kept as the id; the
\* fourth column, '; '.join(tracks), is kept as the list it joins.
DetailRow(pair, names) ==
    [artist1 |-> pair[1], artist2 |-> pair[2], count |-> Len(names),
     track_names |-> names]

\* the rows save_collaboration_details writes under the header
DetailRows(collab) ==
    LET keys == SortedKeys(DOMAIN collab)
    IN  [k \in DOMAIN keys |-> DetailRow(keys[k], collab[keys[k]])]

\* save_collaboration_details(collaborations, artists) on what
\* find_collaborations returned; the file is opened with 'w'
SaveDetails ==
    /\ ft_pc = "done"
    /\ ft_pc' = "saved"
    /\ details' = DetailRows(collaborations)
    /\ UNCHANGED <<artist_ids, ft_idx, processed_tracks, collaborations,
                   ft_track, ft_before, ft_seen_before, ft_set_credits,
                   restOfFt>>

-----------------------------------------------------------------------------
(***************************************************************************)
(* CollaborationExtractor, ego mode: extract_collaborators_from_tracks.    *)
(*   ex_pc: "idle"  not inside the function                                *)
(*          "loop"  at the for statement over tracks                       *)
(*          "done"  the function returned collaborators                    *)
(* A track is the list of the ids of the artists it credits, NONE for a    *)
(* credit without an id; the name of a credited artist is a function of    *)
(* its id. The roster of the run is ARTISTS; "x9" is an artist outside it. *)
(***************************************************************************)
EgoCreditedIds == ARTISTS \cup {"x9", NONE}
EgoCreditLists == UNION {[1..n -> EgoCreditedIds] : n \in 0..3}
ArtistName(aid) ==
    CASE aid = "id1" -> "name1" [] aid = "id2" -> "name2"
      [] aid = "x9" -> "name9" [] OTHER -> "unknown"

ExIdle ==
    /\ ex_pc = "idle" /\ primary_artist_id = NONE /\ ex_idx = 0
    /\ collaborators = {} /\ ex_track = <<>> /\ ex_before = {}

\* artist_ids = {a["id"] for a in artists if a.get("id")}
CreditedIdsOf(artists) == {artists[k] : k \in DOMAIN artists} \ {NONE}

\* Mutant of CreditsPrimary: every track is taken.
CreditsPrimaryOrNot(artists, primary) == TRUE

\* not (primary_artist_id not in artist_ids)
CreditsPrimary(artists, primary) == primary \in CreditedIdsOf(artists)

\* for a in artists: aid = a.get("id")
\*     if not aid or aid == primary_artist_id: continue
\*     collaborators.add((aid, a["name"]))
CollaboratorsOn(artists, primary) ==
    {<<artists[k], ArtistName(artists[k])>> :
        k \in {j \in DOMAIN artists :
                  artists[j] # NONE /\ artists[j] # primary}}

\* extract_collaborators_from_tracks(tracks, primary_artist_id) is entered
ExStart ==
    /\ program = "artist_collab"
    /\ ex_pc \in {"idle", "done"}
    /\ \E primary \in ARTISTS : primary_artist_id' = primary
    /\ ex_pc' = "loop" /\ ex_idx' = 0 /\ collaborators' = {}
    /\ ex_track' = <<>> /\ ex_before' = {}
    /\ UNCHANGED restOfEx

\* for t in tracks: one track
ExTrack ==
    /\ ex_pc = "loop" /\ ex_idx < MaxTracks
    /\ \E artists \in EgoCreditLists :
          /\ ex_track' = artists
          /\ collaborators' =
                 IF CreditsPrimary(artists, primary_artist_id)
                 THEN collaborators \cup CollaboratorsOn(artists, primary_artist_id)
                 ELSE collaborators
    /\ ex_before' = collaborators
    /\ ex_idx' = ex_idx + 1
    /\ UNCHANGED <<ex_pc, primary_artist_id, restOfEx>>

\* tracks is exhausted: return collaborators
ExDone ==
    /\ ex_pc = "loop"
    /\ ex_pc' = "done"
    /\ UNCHANGED <<primary_artist_id, ex_idx, collaborators, ex_track,
                   ex_before, restOfEx>>

-----------------------------------------------------------------------------
(***************************************************************************)
(* Specifications.                                                         *)
(***************************************************************************)
\* The harvesters before their first call.
HarvestIdle == ApIdle /\ GaIdle /\ TbIdle /\ AtIdle /\ FtIdle /\ ExIdle

LimiterIdle ==
    /\ now = 0 /\ request_timestamps = <<>> /\ admission_log = <<>>
    /\ rl_wait = 0 /\ clock_set_back = FALSE

\* The limiter alone, called at arbitrary times.
InitLimiter ==
    /\ program = "build_collaboration_matrix"
    /\ LimiterIdle /\ BoIdle /\ SgIdle /\ MainIdle /\ HarvestIdle
NextLimiter == Tick \/ LimiterCheck \/ LimiterStatus
SpecLimiter == InitLimiter /\ [][NextLimiter]_vars

\* The limiter under a clock that can also repeat a reading or be set back.
NextLimiterAnyClock == Tick \/ ClockBack \/ LimiterCheck \/ LimiterStatus
SpecLimiterAnyClock == InitLimiter /\ [][NextLimiterAnyClock]_vars

\* The two request wrappers, each in the script that defines it.
InitBackoff ==
    /\ program \in {"build_collaboration_matrix", "artist_collab"}
    /\ LimiterIdle /\ BoIdle /\ SgIdle /\ MainIdle /\ HarvestIdle
NextBackoff ==
    \/ BoStart \/ BoAdmit \/ BoCallReturns \/ BoCallRaises \/ BoExcept
    \/ BoSleep
    \/ SgStart \/ SgPause \/ SgTransportError \/ SgResponse \/ SgBackoff
SpecBackoff == InitBackoff /\ [][NextBackoff]_vars

\* The ego-mode driver, started up to MaxRuns times on one roster and one
\* output file.
InitMain ==
    /\ program = "artist_collab"
    /\ LimiterIdle /\ BoIdle /\ SgIdle /\ HarvestIdle
    /\ roster \in Rosters
    /\ run = 0 /\ main_pc = "boot" /\ idx = 0
    /\ processed_ids = {} /\ collabs = <<>> /\ written = 0
    /\ file_exists = FALSE /\ csv_headers = 0 /\ csv_rows = <<>>
    /\ phase = [p \in DOMAIN roster |-> "Pending"]
    /\ rows_at_start = <<>> /\ step_rows = <<>> /\ completed_before = {}
    /\ prev_end = "boot"
NextMain ==
    \/ StartRun \/ LoopEnd \/ Skip \/ Begin \/ HarvestReturns
    \/ HarvestRaises \/ AppendNothing \/ AppendOpen \/ WriteRow
    \/ AppendReturns \/ AddProcessed \/ Interrupt \/ InterruptOutside
SpecMain == InitMain /\ [][NextMain]_vars

\* The two release harvesters, each in the script that defines it.
InitReleases ==
    /\ program \in {"build_collaboration_matrix", "artist_collab"}
    /\ LimiterIdle /\ BoIdle /\ SgIdle /\ MainIdle /\ HarvestIdle
NextReleases ==
    \/ ApStart \/ ApFetchReturns \/ ApFetchRaises
    \/ GaStart \/ GaNextArtist \/ GaFetchReturns \/ GaFetchRaises \/ GaDone
SpecReleases == InitReleases /\ [][NextReleases]_vars

\* The two track harvesters, each in the script that defines it.
InitTracks ==
    /\ program \in {"build_collaboration_matrix", "artist_collab"}
    /\ LimiterIdle /\ BoIdle /\ SgIdle /\ MainIdle /\ HarvestIdle
NextTracks ==
    \/ TbStart \/ TbBatchReturns \/ TbBatchRaises \/ TbAlbum
    \/ TbMoreReturns \/ TbMoreRaises \/ TbDone
    \/ AtStart \/ AtFetchReturns \/ AtFetchRaises
SpecTracks == InitTracks /\ [][NextTracks]_vars

\* The restricted-mode extraction over any list of up to MaxTracks tracks.
InitExtract ==
    /\ program = "build_collaboration_matrix"
    /\ LimiterIdle /\ BoIdle /\ SgIdle /\ MainIdle /\ HarvestIdle
NextExtract == FtStart \/ FtTrack \/ FtDone \/ SaveDetails
SpecExtract == InitExtract /\ [][NextExtract]_vars

\* The ego-mode extraction over any list of up to MaxTracks tracks.
InitEgoExtract ==
    /\ program = "artist_collab"
    /\ LimiterIdle /\ BoIdle /\ SgIdle /\ MainIdle /\ HarvestIdle
NextEgoExtract == ExStart \/ ExTrack \/ ExDone
SpecEgoExtract == InitEgoExtract /\ [][NextEgoExtract]_vars

-----------------------------------------------------------------------------
(***************************************************************************)
(* Properties.                                                             *)
(***************************************************************************)
IsPrefix(a, b) == Len(a) <= Len(b) /\ SubSeq(b, 1, Len(a)) = a

\* C1 (SpecLimiter): at no point do more than MAX_REQUESTS_PER_WINDOW
\* recorded admission timestamps fall within a RATE_LIMIT_WINDOW-wide
\* trailing interval, the admission recorded right after the limiter's
\* sleep included. The clock never runs backwards and a sleep lasts at
\* least as long as asked. It suffices to look at the intervals that end at
\* an admission: an interval ending later holds no more admissions.
C1_WindowNeverExceeded ==
    \A i \in DOMAIN admission_log :
        Cardinality({j \in DOMAIN admission_log :
                        /\ admission_log[i] - RATE_LIMIT_WINDOW <= admission_log[j]
                        /\ admission_log[j] <= admission_log[i]})
            <= MAX_REQUESTS_PER_WINDOW
\* The limiter slept, and the admission it then recorded fills the window.
C1_Witness ==
    /\ rl_wait > 0
    /\ Len(admission_log) = MAX_REQUESTS_PER_WINDOW
    /\ admission_log[Len(admission_log)] = now

\* The previous run was interrupted after an artist: it was stopped by
\* Ctrl+C, and every artist that has rows in the output had completed its
\* step.
InterruptedAfterArtist ==
    /\ run >= 2
    /\ prev_end \in {"interrupted", "aborted"}
    /\ IdsOf(rows_at_start) \subseteq completed_before

\* C2 (SpecMain): checkpoint resumability. When the script was interrupted
\* after artist k and is rerun on the same roster, the rows the earlier
\* runs wrote are still the head of the output, unchanged; no row is
\* appended for an artist that already has rows, and no row occurs twice;
\* and once the rerun is through, every artist that had not completed
\* before has been taken through its step (harvested and persisted, or
\* failed and logged).
C2_Resumable ==
    InterruptedAfterArtist =>
        /\ IsPrefix(rows_at_start, csv_rows)
        /\ \A k \in DOMAIN csv_rows :
              k > Len(rows_at_start) =>
                  csv_rows[k].primary_artist_id \notin IdsOf(rows_at_start)
        /\ \A k, m \in DOMAIN csv_rows : csv_rows[k] = csv_rows[m] => k = m
        /\ main_pc = "done" =>
              \A p \in DOMAIN roster :
                  roster[p] \notin completed_before =>
                      \E q \in DOMAIN roster :
                          /\ roster[q] = roster[p]
                          /\ phase[q] \in {"Persisted", "Failed"}
\* A rerun after an interrupt skipped an artist that had rows, persisted a
\* later one that had not completed before, and appended its rows.
C2_Witness ==
    /\ InterruptedAfterArtist /\ prev_end = "interrupted"
    /\ main_pc = "done"
    /\ rows_at_start # <<>>
    /\ Len(csv_rows) > Len(rows_at_start)
    /\ \E p, q \in DOMAIN roster :
          /\ p < q /\ phase[p] = "Skipped" /\ phase[q] = "Persisted"
          /\ roster[q] \notin completed_before

\* C3 as the spec states it (SpecMain): when the driver stops on an
\* interrupt, the artist in progress has either no rows in the output or
\* its complete row set.
C3_Original ==
    main_pc = "interrupted" =>
        /\ csv_rows \in {step_rows, step_rows \o collabs}
        /\ IsPrefix(rows_at_start, step_rows)
\* C3 as amended (SpecMain): the interrupt is observed inside the
\* per-artist step. When the driver stops on it, the output holds what it
\* held when the artist was begun followed by the first `written` rows of
\* the artist's row set (none, some or all of them), the rows of the
\* artists persisted before are unchanged, and no later artist has been
\* visited.
C3_InterruptLeavesPrefix ==
    main_pc = "interrupted" =>
        /\ phase[idx] \in {"Harvesting", "Extracted"}
        /\ written \in 0..Len(collabs)
        /\ csv_rows = step_rows \o SubSeq(collabs, 1, written)
        /\ IsPrefix(rows_at_start, step_rows)
        /\ \A p \in DOMAIN roster : p > idx => phase[p] = "Pending"
\* The interrupt arrived between two rows of an artist, after another
\* artist had been persisted.
C3_Witness ==
    /\ main_pc = "interrupted"
    /\ 0 < written /\ written < Len(collabs)
    /\ step_rows # <<>>

\* C4 (SpecMain): per-artist failure isolation. When an exception escapes
\* the harvest of an artist, the driver has appended no row for it and has
\* not added it to the ProcessedSet, it moves on to the next artist, and a
\* run that reaches the end of the roster has visited every artist.
C4_FailureIsolated ==
    /\ (main_pc = "loop" /\ idx > 1 /\ phase[idx - 1] = "Failed") =>
          /\ csv_rows = step_rows
          /\ roster[idx - 1] \notin processed_ids
    /\ \A p \in DOMAIN phase :
          (phase[p] = "Failed" /\ main_pc \notin {"interrupted", "aborted"})
              => idx > p
    /\ main_pc = "done" => \A p \in DOMAIN phase : phase[p] # "Pending"
\* An artist failed and a later artist of the same run was persisted.
C4_Witness ==
    /\ main_pc = "done"
    /\ \E p, q \in DOMAIN phase :
          p < q /\ phase[p] = "Failed" /\ phase[q] = "Persisted"

\* C5 as the spec states it (SpecMain): on a rerun, every artist that
\* reached the end of its harvest-extract-append step in an earlier run,
\* an artist without collaborations included, is skipped and harvested no
\* more.
C5_Original ==
    \A p \in DOMAIN phase :
        roster[p] \in completed_before => phase[p] \in {"Pending", "Skipped"}
\* C5 as amended (SpecMain): on a rerun, every artist that has at least one
\* row in the output is skipped and harvested no more; an artist is skipped
\* only if it has a row in the output or was persisted earlier in the same
\* run, so an artist that completed with no collaborations is not.
C5_RowsAreTheCheckpoint ==
    \A p \in DOMAIN phase :
        /\ roster[p] \in IdsOf(rows_at_start)
              => phase[p] \in {"Pending", "Skipped"}
        /\ phase[p] = "Skipped" =>
              \/ roster[p] \in IdsOf(rows_at_start)
              \/ \E q \in DOMAIN phase :
                    q < p /\ roster[q] = roster[p] /\ phase[q] = "Persisted"
\* In a rerun, an artist with rows was skipped and an artist that had
\* completed without rows is being harvested again.
C5_Witness ==
    /\ run = 2
    /\ \E p, q \in DOMAIN phase :
          /\ roster[p] \in IdsOf(rows_at_start) /\ phase[p] = "Skipped"
          /\ roster[q] \in completed_before
          /\ roster[q] \notin IdsOf(rows_at_start)
          /\ phase[q] = "Harvesting"

\* C6 (SpecBackoff): every invocation of the wrapped call is preceded, in
\* the same attempt, by one rate_limit_check() admission: where the call
\* is about to be made, exactly one admission more than calls has been
\* made, in this loop index and at the current clock reading; everywhere
\* else there are as many admissions as calls.
C6_AdmittedBeforeEveryCall ==
    /\ bo_pc = "call" =>
          /\ bo_admissions = bo_invocations + 1
          /\ bo_admitted_attempt = attempt
          /\ request_timestamps # <<>>
          /\ request_timestamps[Len(request_timestamps)] = now
    /\ bo_pc # "call" => bo_admissions = bo_invocations
\* A retry has been admitted and is about to call.
C6_Witness ==
    /\ bo_pc = "call" /\ attempt = 2 /\ bo_admissions = 3
    /\ bo_invocations = 2

Finished == bo_pc \in {"returned", "raised"}
Carries(raised, e) == raised.exc = e \/ raised.context = e

\* C7 as the spec states it (SpecBackoff): the wrapped call is invoked at
\* most max_retries times, and when every attempt failed with a retryable
\* failure the function fails with an error that carries the last
\* underlying error.
C7_Original ==
    /\ bo_invocations <= max_retries
    /\ (Finished /\ bo_retryable = max_retries) =>
          /\ bo_pc = "raised" /\ bo_result = NONE
          /\ Carries(bo_raised, bo_exc)
\* C7 as amended (SpecBackoff): the wrapped call is invoked at most
\* max_retries times, and when every attempt failed with a retryable
\* failure the function returns no value and raises a plain Exception whose
\* message names max_retries only: the last underlying error is neither
\* the raised error nor attached to it.
C7_ExhaustedRaisesPlainError ==
    /\ bo_invocations <= max_retries
    /\ (Finished /\ bo_retryable = max_retries) =>
          /\ bo_pc = "raised" /\ bo_result = NONE
          /\ bo_invocations = max_retries
          /\ bo_raised.exc = MaxRetriesExceeded(max_retries)
          /\ bo_raised.context = NoException
          /\ ~Carries(bo_raised, bo_exc)
\* All five default attempts failed, the last with a server error.
C7_Witness ==
    /\ bo_pc = "raised" /\ max_retries = DEFAULT_MAX_RETRIES
    /\ bo_retryable = DEFAULT_MAX_RETRIES
    /\ bo_exc.http_status = 503

\* C8 (SpecBackoff): on repeated 429 responses without Retry-After, the
\* delay slept before the n-th retry is initial_wait * 2^(n-1), for n from
\* 1 to max_retries - 1. In loop index attempt the retry that follows is
\* number attempt + 1.
C8_ExponentialDelay ==
    \A n \in 1..(max_retries - 1) :
        (bo_pc = "sleep" /\ bo_only429 /\ attempt + 1 = n) =>
            wait_time = initial_wait * Pow2(n - 1)
\* The fourth retry of a default call is about to be delayed by 16 s.
C8_Witness ==
    /\ bo_pc = "sleep" /\ bo_only429 /\ attempt = 3
    /\ initial_wait = DEFAULT_INITIAL_WAIT /\ max_retries = DEFAULT_MAX_RETRIES
    /\ wait_time = 16

Is429(e) == e.type = "SpotifyException" /\ e.http_status = 429
\* The delays of the 429s without Retry-After follow base * 2^attempt for
\* one base.
SgExponential ==
    \A k, m \in DOMAIN sg_retry_sleeps :
        (sg_retry_sleeps[k].header = NONE /\ sg_retry_sleeps[m].header = NONE)
            => sg_retry_sleeps[k].delay * Pow2(m - 1)
                   = sg_retry_sleeps[m].delay * Pow2(k - 1)
BoRetryAfterHonoured ==
    (bo_pc = "sleep" /\ Is429(bo_exc)) =>
        wait_time = IF bo_exc.retry_after # NONE
                    THEN IntOf(bo_exc.retry_after)
                    ELSE initial_wait * Pow2(attempt)
SgRetryAfterHonoured ==
    /\ (sg_pc = "backoff" /\ sg_header # NONE) => sg_sleep = IntOf(sg_header)
    /\ \A k \in DOMAIN sg_retry_sleeps :
          sg_retry_sleeps[k].header # NONE =>
              sg_retry_sleeps[k].delay = IntOf(sg_retry_sleeps[k].header)

\* C9 as the spec states it (SpecBackoff): a 429 with a Retry-After value
\* is delayed by exactly that value whatever the attempt, in
\* api_call_with_backoff and in spotify_get; one without is delayed along
\* the exponential schedule base_delay * 2^attempt.
C9_Original ==
    /\ BoRetryAfterHonoured
    /\ SgRetryAfterHonoured
    /\ SgExponential
\* C9 as amended (SpecBackoff): a 429 with a Retry-After value is delayed
\* by exactly that value whatever the attempt, in both functions; one
\* without is delayed by initial_wait * 2^attempt in api_call_with_backoff
\* and by a fixed 1 second in spotify_get.
C9_RetryAfterOrDefault ==
    /\ BoRetryAfterHonoured
    /\ SgRetryAfterHonoured
    /\ (sg_pc = "backoff" /\ sg_header = NONE) =>
          sg_sleep = SG_DEFAULT_RETRY_AFTER
    /\ \A k \in DOMAIN sg_retry_sleeps :
          sg_retry_sleeps[k].header = NONE =>
              sg_retry_sleeps[k].delay = SG_DEFAULT_RETRY_AFTER
\* spotify_get slept 1 s for a 429 without the header, then 3 s for one
\* that carried "3", and 1 s again for one without.
C9_Witness ==
    /\ Len(sg_retry_sleeps) = 3
    /\ sg_retry_sleeps[1] = [header |-> NONE, delay |-> 1]
    /\ sg_retry_sleeps[2] = [header |-> "3", delay |-> 3]
    /\ sg_retry_sleeps[3] = [header |-> NONE, delay |-> 1]

ClientError(st) == st >= 400 /\ st < 500 /\ st # 429
\* C10 (SpecBackoff): an HTTP 4xx failure other than 429 is not retried.
\* While the last failure of api_call_with_backoff is such an error, the
\* function is in its handler or has raised that very error, and it has
\* slept once for each earlier attempt and not for this one; spotify_get
\* raises for such a response at once, having slept only for the 429s
\* before it.
C10_ClientErrorNotRetried ==
    /\ (bo_exc.type = "SpotifyException" /\ ClientError(bo_exc.http_status)) =>
          /\ bo_pc \in {"except", "raised"}
          /\ bo_sleeps = bo_invocations - 1
          /\ bo_pc = "raised" => bo_raised.exc = bo_exc
    /\ ClientError(sg_status) =>
          /\ sg_pc = "raised"
          /\ sg_raised = Exc("HTTPError", sg_status, NONE, 0)
          /\ Len(sg_retry_sleeps) = sg_requests - 1
\* The first attempt met a 404; the function raised it without sleeping.
C10_Witness ==
    /\ bo_pc = "raised" /\ bo_raised.exc.http_status = 404
    /\ bo_invocations = 1 /\ bo_sleeps = 0

ServerOrTransport(e) ==
    \/ e.type = "SpotifyException" /\ e.http_status >= 500
    \/ e.type = "HTTPError" /\ e.http_status >= 500
    \/ e.type = "ConnectionError"
\* C11 (SpecBackoff): in api_call_with_backoff a 5xx failure and a
\* transport failure are retried. The sleep after such a failure in loop
\* index attempt lasts initial_wait * 2^attempt; the failure itself is
\* never what the function raises (only the exhaustion of all max_retries
\* attempts ends it); every failed attempt before the current one was slept
\* for; and when an attempt succeeds the function returns the result of
\* that call, the attempt + 1-th, after attempt failures.
C11_ServerAndTransportRetried ==
    /\ (bo_pc = "sleep" /\ ServerOrTransport(bo_exc)) =>
          wait_time = initial_wait * Pow2(attempt)
    /\ (bo_pc = "raised" /\ ServerOrTransport(bo_exc)) =>
          /\ bo_raised.exc = MaxRetriesExceeded(max_retries)
          /\ bo_invocations = max_retries
    /\ bo_pc \in {"admit", "call"} =>
          bo_sleeps = attempt /\ bo_retryable = attempt
    /\ bo_pc = "returned" =>
          /\ bo_result = "results"
          /\ bo_invocations = attempt + 1
          /\ bo_sleeps = attempt
\* The third attempt of a default call met a 503 and is about to be slept
\* for 8 s; the first two were retried.
C11_Witness ==
    /\ bo_pc = "sleep" /\ attempt = 2 /\ bo_exc.http_status = 503
    /\ initial_wait = DEFAULT_INITIAL_WAIT /\ wait_time = 8
    /\ bo_sleeps = 2 /\ bo_only429 = FALSE
\* C12 as the spec states it (SpecBackoff): in spotify_get a 5xx response
\* or a transport error surfaces only when all attempts are exhausted: it
\* is never raised on an attempt before the last.
C12_Original ==
    (sg_pc = "raised" /\ ServerOrTransport(sg_raised)) =>
        sg_requests = SG_MAX_RETRIES

\* The items of the pages received, in the order received.
RECURSIVE ItemsOf(_)
ItemsOf(pages) ==
    IF pages = <<>> THEN <<>>
    ELSE ItemsOf(SubSeq(pages, 1, Len(pages) - 1)) \o pages[Len(pages)].items
\* The first k items of st without those that occurred before in st.
RECURSIVE FirstOccurrences(_, _)
FirstOccurrences(st, k) ==
    IF k = 0 THEN <<>>
    ELSE LET r == FirstOccurrences(st, k - 1)
         IN  IF \E j \in 1..(k - 1) : st[j] = st[k] THEN r ELSE Append(r, st[k])
Unique(st) == FirstOccurrences(st, Len(st))

\* The server answered with p1, p2, p3: p1 and p2 hold items and signal a
\* next page, p3 is empty or signals none, and the three hold fewer than
\* max_albums different releases.
ThreePages ==
    /\ Len(ap_pages) >= 3
    /\ ap_pages[1].items # <<>> /\ ap_pages[1].next
    /\ ap_pages[2].items # <<>> /\ ap_pages[2].next
    /\ ap_pages[3].items = <<>> \/ ~ap_pages[3].next
    /\ Len(Unique(ItemsOf(SubSeq(ap_pages, 1, 3)))) < max_albums

\* C13 (SpecReleases): given pages p1, p2, p3 where p3 is empty or signals
\* no next page, get_artist_albums_albums_and_singles has returned after
\* exactly the requests at offsets 0, per_page and 2 * per_page, with the
\* releases of exactly these three pages, all of them read.
C13_PaginationTerminates ==
    ThreePages =>
        /\ ap_pc = "returned"
        /\ ap_requests = <<0, per_page, 2 * per_page>>
        /\ Len(ap_pages) = 3
        /\ all_items = Unique(ItemsOf(ap_pages))
        /\ ap_left = 0
\* Three pages were consumed, the third not empty and without next.
C13_Witness ==
    /\ ThreePages /\ ap_pc = "returned"
    /\ ap_pages[3].items # <<>>
    /\ Len(all_items) = 3

\* C14 (SpecReleases): release deduplication. Whatever pages arrive, the
\* list get_artist_albums_albums_and_singles builds holds each release id
\* at most once, in the order of first discovery: it is the head of the
\* received items without their repetitions, and all of it when the last
\* page was read to its end.
C14_EachReleaseOnce ==
    /\ NoRepetition(all_items)
    /\ IsPrefix(all_items, Unique(ItemsOf(ap_pages)))
    /\ ap_left = 0 => all_items = Unique(ItemsOf(ap_pages))
    /\ seen_album_ids = {all_items[k] : k \in DOMAIN all_items}
\* Two overlapping pages were merged: the second repeats a release of the
\* first and brings a new one.
C14_Witness ==
    /\ ap_pc = "returned" /\ Len(ap_pages) = 2
    /\ ap_pages[1].items = <<"a2", "a1">>
    /\ ap_pages[2].items = <<"a1", "a3">>
    /\ all_items = <<"a2", "a1", "a3">>

\* How many items of the last page received have been read.
ReadOfLast == Len(ap_pages[Len(ap_pages)].items) - ap_left
ItemsRead ==
    ItemsOf(SubSeq(ap_pages, 1, Len(ap_pages) - 1))
        \o SubSeq(ap_pages[Len(ap_pages)].items, 1, ReadOfLast)
\* C15 (SpecReleases): when the number of different releases read reaches
\* max_albums, get_artist_albums_albums_and_singles has returned (without
\* an error and with no request after the page it was reading) exactly
\* max_albums different releases, and the item it read last is the one that
\* reached the count: the rest of the page is left unread.
C15_StopsAtMaxAlbums ==
    /\ Len(all_items) <= max_albums
    /\ Len(all_items) = max_albums =>
          /\ ap_pc = "returned"
          /\ Len(ap_requests) = Len(ap_pages)
          /\ NoRepetition(all_items)
          /\ all_items = Unique(ItemsRead)
          /\ Len(Unique(SubSeq(ItemsRead, 1, Len(ItemsRead) - 1)))
                = max_albums - 1
\* The third different release was the first item of the second page; the
\* second item of that page was not read.
C15_Witness ==
    /\ ap_pc = "returned" /\ max_albums = 3 /\ Len(all_items) = 3
    /\ Len(ap_pages) = 2 /\ ap_left = 1
    /\ ap_pages[2].items = <<"a3", "a1">>

\* C16 as the spec states it (SpecReleases): neither harvesting path
\* collects more than MAX_ALBUMS_PER_ARTIST releases for one artist.
C16_Original ==
    /\ max_albums = MAX_ALBUMS_PER_ARTIST =>
          Len(all_items) <= MAX_ALBUMS_PER_ARTIST
    /\ ga_collected <= MAX_ALBUMS_PER_ARTIST
\* C16 as amended (SpecReleases): get_artist_albums_albums_and_singles
\* never holds more than max_albums (by default MAX_ALBUMS_PER_ARTIST)
\* releases, whatever pages the server offers. get_all_album_ids applies no
\* cap: it takes every item of every page into album_ids, and unless a call
\* fails it goes on until a page shorter than the limit arrives, so that it
\* has then collected all the releases the artist has, however many.
C16_CapInEgoModeOnly ==
    /\ Len(all_items) <= max_albums
    /\ ga_pc = "fetch" =>
          /\ ga_collected = ga_offset
          /\ ArtistAlbumsItems(ga_idx, ga_catalogue, 0, ga_offset)
                \subseteq album_ids
    /\ (ga_pc = "artist" /\ ga_idx > 1 /\ ~ga_raised) =>
          /\ ga_collected = ga_catalogue
          /\ ArtistAlbumsItems(ga_idx - 1, ga_catalogue, 0, ga_catalogue)
                \subseteq album_ids
\* An artist with 350 releases was harvested in full.
C16_Witness ==
    /\ ga_pc = "artist" /\ ga_idx > 1 /\ ~ga_raised
    /\ ga_collected = 350 /\ ga_collected > MAX_ALBUMS_PER_ARTIST

RECURSIVE Flat(_)
Flat(seqs) ==
    IF seqs = <<>> THEN <<>>
    ELSE Flat(SubSeq(seqs, 1, Len(seqs) - 1)) \o seqs[Len(seqs)]
Range(f) == {f[x] : x \in DOMAIN f}
\* ceil(n / BATCH_SIZE)
BatchesNeeded(n) == (n + BATCH_SIZE - 1) \div BATCH_SIZE

\* C17 (SpecTracks): get_albums_with_tracks_batched calls the multi-get
\* endpoint with consecutive batches of at most BATCH_SIZE releases in
\* discovery order: the batches asked for so far, put end to end, are the
\* head of album_ids; and when the function is through they are all of
\* album_ids, every release id is in exactly one of them, and one call was
\* made per batch, ceil(n / BATCH_SIZE) in all.
C17_BatchesPartition ==
    /\ \A b \in DOMAIN tb_batches : Len(tb_batches[b]) \in 1..BATCH_SIZE
    /\ IsPrefix(Flat(tb_batches), tb_album_ids)
    /\ Len(tb_outcomes) = Len(tb_batches)
    /\ tb_pc = "done" =>
          /\ Flat(tb_batches) = tb_album_ids
          /\ \A id \in Range(tb_album_ids) :
                Cardinality({b \in DOMAIN tb_batches :
                                id \in Range(tb_batches[b])}) = 1
          /\ Len(tb_batches) = BatchesNeeded(Len(tb_album_ids))
\* 41 releases were fetched in batches of 20, 20 and 1.
C17_Witness ==
    /\ tb_pc = "done" /\ Len(tb_album_ids) = 41
    /\ Len(tb_batches) = 3
    /\ Len(tb_batches[1]) = 20 /\ Len(tb_batches[2]) = 20
    /\ tb_batches[3] = <<41>>

\* C18 (SpecTracks): partial failure policy. When the call for a batch
\* fails, all_tracks is what it was before that batch; no track of a
\* release of a failed batch is ever in all_tracks; the tracks collected
\* before the current batch stay the head of all_tracks; and the function
\* still asks for every later batch and returns: when it is through, every
\* batch has been asked for.
C18_FailedBatchSkipped ==
    /\ (tb_pc = "batch" /\ tb_outcomes # <<>>
          /\ tb_outcomes[Len(tb_outcomes)] = "failed") =>
          all_tracks = tb_tracks_before
    /\ \A b \in DOMAIN tb_outcomes :
          tb_outcomes[b] = "failed" =>
              \A k \in DOMAIN all_tracks :
                  all_tracks[k][1] \notin Range(tb_batches[b])
    /\ IsPrefix(tb_tracks_before, all_tracks)
    /\ tb_pc = "done" =>
          Len(tb_batches) = BatchesNeeded(Len(tb_album_ids))
\* The second of three batches failed; the first and the third gave their
\* tracks.
C18_Witness ==
    /\ tb_pc = "done" /\ tb_outcomes = <<"ok", "failed", "ok">>
    /\ \E k \in DOMAIN all_tracks : all_tracks[k][1] = 1
    /\ all_tracks[Len(all_tracks)][1] = 41

\* The tracks the server holds of the releases of ids.
TracksOnServer(ids) ==
    UNION {{<<a, t>> : t \in 1..TrackCount(a)} : a \in Range(ids) \ MissingAlbums}
NoFailure ==
    /\ \A b \in DOMAIN tb_outcomes : tb_outcomes[b] = "ok"
    /\ ~tb_more_failed

\* C19 (SpecTracks): track coverage. Absent failures, the list
\* get_albums_with_tracks_batched returns holds every track of every
\* release the server knows exactly once, the tracks beyond the embedded
\* page of a release included; and the list get_all_album_tracks returns
\* holds every track of the album exactly once, in order.
C19_EveryTrackOnce ==
    /\ (tb_pc = "done" /\ NoFailure) =>
          /\ Range(all_tracks) = TracksOnServer(tb_album_ids)
          /\ Len(all_tracks) = Cardinality(TracksOnServer(tb_album_ids))
    /\ at_pc = "returned" => tracks = [t \in 1..at_total |-> t]
\* 21 releases, among them releases of 120, 100 and 51 tracks, were
\* harvested with two batch calls and six secondary calls.
C19_Witness ==
    /\ tb_pc = "done" /\ NoFailure /\ Len(tb_album_ids) = 21
    /\ tb_api_calls = 8
    /\ <<1, 120>> \in Range(all_tracks)

\* The smaller and the larger of two ids.
MinId(a, b) == CHOOSE x \in {a, b} : \A y \in {a, b} : StrLeq(x, y)
MaxId(a, b) == CHOOSE x \in {a, b} : \A y \in {a, b} : StrLeq(y, x)
Evidence(collab, pair) == IF pair \in DOMAIN collab THEN collab[pair] ELSE <<>>
\* The track taken last was not skipped: it has an id, seen for the first
\* time.
TakenLast ==
    ft_idx > 0 /\ ft_track.id # NONE /\ ft_track.id \notin ft_seen_before

\* C20 (SpecExtract): edge canonicalization. For artists a # b of the
\* universe, a track that credits both, in either order, adds its name to
\* the edge keyed (min(a,b), max(a,b)) and to no edge keyed (max, min); no
\* key of collaborations ever has its larger id first, so (a,b) and (b,a)
\* never exist as two keys.
C20_CanonicalEdgeKey ==
    /\ \A pair \in DOMAIN collaborations :
          pair[1] # pair[2] =>
              /\ pair = <<MinId(pair[1], pair[2]), MaxId(pair[1], pair[2])>>
              /\ <<pair[2], pair[1]>> \notin DOMAIN collaborations
    /\ TakenLast =>
          \A i, j \in DOMAIN ft_track.artists :
              LET a == ft_track.artists[i]
                  b == ft_track.artists[j]
              IN  (a # b /\ a \in artist_ids /\ b \in artist_ids) =>
                      Len(Evidence(collaborations, <<MinId(a, b), MaxId(a, b)>>))
                          > Len(Evidence(ft_before, <<MinId(a, b), MaxId(a, b)>>))
\* Two tracks credited id1 and id2 in opposite orders: both are evidence
\* of the one edge (id1, id2).
C20_Witness ==
    /\ ft_idx = 2 /\ ft_track = Track("t2", <<"id2", "id1">>)
    /\ ft_before = (<<"id1", "id2">> :> <<"n1">>)
    /\ collaborations = (<<"id1", "id2">> :> <<"n1", "n2">>)

\* The artists of the universe a track credits, and the unordered pairs of
\* them as keys.
TrackedOn(track) == Range(CollaboratingArtists(track, artist_ids))
PairsOf(ids) == {<<MinId(a, b), MaxId(a, b)>> : a, b \in ids} \ {<<a, a>> : a \in ids}
\* The track taken last names no artist of the universe twice.
CreditsASet == NoRepetition(CollaboratingArtists(ft_track, artist_ids))
\* The keys whose evidence the last track changed.
ChangedKeys ==
    {pair \in DOMAIN collaborations :
        Evidence(collaborations, pair) # Evidence(ft_before, pair)}

RowOf(pair) ==
    CHOOSE k \in DOMAIN details :
        details[k].artist1 = pair[1] /\ details[k].artist2 = pair[2]

CollaboratorIds(cs) == {c[1] : c \in cs}

\* C24 (SpecEgoExtract): ego mode. A track that does not credit the primary
\* artist leaves collaborators as it was; a track that credits the primary
\* artist adds exactly the other artists it credits (those with an id),
\* whether or not they are on the roster; the primary artist is never among
\* the collaborators.
C24_CollaboratorsOfPrimaryOnly ==
    /\ primary_artist_id \notin CollaboratorIds(collaborators)
    /\ NONE \notin CollaboratorIds(collaborators)
    /\ (ex_idx > 0 /\ primary_artist_id \notin Range(ex_track)) =>
          collaborators = ex_before
    /\ (ex_idx > 0 /\ primary_artist_id \in Range(ex_track)) =>
          /\ ex_before \subseteq collaborators
          /\ CollaboratorIds(collaborators) =
                 CollaboratorIds(ex_before) \cup
                     (Range(ex_track) \ {primary_artist_id, NONE})
\* For the primary artist id1: the first track left collaborators empty,
\* the second credits x9 with id1 and yields x9, an artist outside the
\* roster.
C24_Witness ==
    /\ primary_artist_id = "id1" /\ ex_idx = 2 /\ ex_before = {}
    /\ ex_track = <<"x9", "id1">>
    /\ collaborators = {<<"x9", "name9">>}
    /\ "x9" \notin ARTISTS

\* C25 (SpecMain): the Checkpoint Store is append-only. No step of the
\* driver, over appends, restarts and skips, changes or removes a row the
\* file holds or moves it: what the file held stays a prefix of what it
\* holds. A header line is written only by an append that finds no file,
\* so the file never holds more than one, and an existing file stays.
C25_AppendOnly ==
    [][/\ IsPrefix(csv_rows, csv_rows')
       /\ csv_headers' >= csv_headers
       /\ csv_headers' # csv_headers =>
              ~file_exists /\ csv_headers' = 1 /\ main_pc = "append"
       /\ csv_rows' # csv_rows => csv_headers' = 1
       /\ file_exists => file_exists']_vars
\* A second run skipped the artist the first run wrote and appended the
\* rows of another artist after the rows of the first.
C25_Witness ==
    /\ run = 2 /\ main_pc = "done" /\ csv_headers = 1
    /\ roster = <<"id1", "id2">> /\ phase = <<"Skipped", "Persisted">>
    /\ rows_at_start = <<Row("id1", "c1")>>
    /\ csv_rows = <<Row("id1", "c1"), Row("id2", "c1"), Row("id2", "c2")>>

\* The primary-artist ids with at least one row among rows.
IdsWithARow(rows) ==
    {a \in ARTISTS : \E k \in DOMAIN rows : rows[k].primary_artist_id = a}

\* C26 (SpecMain): the step of main that calls
\* load_already_processed_artists leaves processed_ids equal to the set of
\* primary-artist ids with at least one row in the output as it is then,
\* the empty set when there is no output, and leaves the output (its
\* existence, header and rows) as it was.
C26_ProcessedSetIsIdsWithRows ==
    [][run' # run =>
          /\ processed_ids' = IdsWithARow(csv_rows)
          /\ ~file_exists => processed_ids' = {}
          /\ csv_rows' = csv_rows /\ file_exists' = file_exists
          /\ csv_headers' = csv_headers]_vars
\* The second run starts on an output holding the rows of id1 and the one
\* row of id2 written before the interrupt: both ids are loaded.
C26_Witness ==
    /\ run = 2 /\ main_pc = "loop" /\ idx = 1 /\ prev_end = "interrupted"
    /\ csv_rows = <<Row("id1", "c1"), Row("id1", "c2"), Row("id2", "c1")>>
    /\ rows_at_start = csv_rows
    /\ processed_ids = {"id1", "id2"}

\* The transitions of an artist's state within one run.
PhaseTransitions ==
    {<<"Pending", "Harvesting">>, <<"Harvesting", "Extracted">>,
     <<"Extracted", "Persisted">>, <<"Pending", "Skipped">>,
     <<"Harvesting", "Failed">>}
\* The last rows of the output are the rows harvested for the current artist.
AppendedAll ==
    /\ Len(csv_rows) >= Len(collabs)
    /\ SubSeq(csv_rows, Len(csv_rows) - Len(collabs) + 1, Len(csv_rows)) = collabs

RunRows == SubSeq(csv_rows, Len(rows_at_start) + 1, Len(csv_rows))
PersistedFor(a) ==
    {p \in DOMAIN roster : roster[p] = a /\ phase[p] = "Persisted"}
\* The loop is at an artist whose id is in processed_ids.
AtProcessedArtist ==
    main_pc = "loop" /\ idx <= Len(roster) /\ roster[idx] \in processed_ids

C29_Original ==
    /\ ga_pc = "fetch" => (ga_offset = 0 \/ ga_offset < ga_catalogue)
    /\ tb_pc = "more" => tb_offset < TrackCount(tb_batch[tb_k])

\* C30 (SpecLimiterAnyClock): rate_limit_check only delays. Whatever the
\* clock reads (readings may repeat, and the clock may have been set back),
\* every call returns having appended exactly one timestamp, the reading at
\* which the request is admitted, to what is left of the deque after
\* entries were dropped from its front; it sleeps only for a positive
\* computed wait and only with the deque full, in which case the clock has
\* advanced by at least the wait, and otherwise it returns at the reading it
\* was called at.
C30_OnlyDelays ==
    [][request_timestamps' # request_timestamps =>
          /\ \E k \in 0..Len(request_timestamps) :
                request_timestamps' =
                    Append(SubSeq(request_timestamps, k + 1,
                                  Len(request_timestamps)), now')
          /\ rl_wait' >= 0
          /\ rl_wait' > 0 =>
                /\ Len(request_timestamps) >= MAX_REQUESTS_PER_WINDOW
                /\ now' >= now + rl_wait'
          /\ rl_wait' = 0 => now' = now]_vars
\* After the clock was set back the deque is full of readings that lie
\* ahead of the clock; the next call sleeps for more than the window and
\* records the reading it wakes up at.
C30_Witness ==
    /\ clock_set_back /\ rl_wait > RATE_LIMIT_WINDOW + BUFFER
    /\ Len(request_timestamps) = MAX_REQUESTS_PER_WINDOW
    /\ request_timestamps[Len(request_timestamps)] = now
    /\ request_timestamps[1] > now - rl_wait

C32_Original ==
    /\ \A pair \in DOMAIN collaborations : pair[1] # pair[2]
    /\ TakenLast =>
          \A pair \in DOMAIN collaborations :
              Len(collaborations[pair]) <= Len(Evidence(ft_before, pair)) + 1

=============================================================================
